---- MODULE Spec2Model ----
(***************************************************************************)
(* Model of the AI stock analyzer (patkinm/ai-agent-stocks).               *)
(*                                                                         *)
(*   SpecParse : StockAnalyzer._parse_binary_response, run line by line    *)
(*               over bounded LLM response texts (character level).        *)
(*   Spec      : the CLI batch of main() / run_complete_binary_analysis:   *)
(*               construct, then per symbol fetch -> LLM call -> parse,    *)
(*               then summary and optional save.                           *)
(*                                                                         *)
(* Text is a sequence of one-character strings, so that upper(), `in`,     *)
(* split(), strip(), replace() and float() are computed, not assumed.      *)
(***************************************************************************)
EXTENDS Integers, Sequences, FiniteSets, TLC

VARIABLES
    \* ---- _parse_binary_response (SpecParse) ----
    response_text,   \* the LLM text handed to the parser
    lines,           \* response_text.upper().split('\n')
    li,              \* index of the next line of the for loop
    result,          \* the result dict being filled
    ppc,             \* "start" | "loop" | "done"
    escaped,         \* exception that left _parse_binary_response ("none" if none)
    prev_result,     \* result before the line processed last (history)
    \* ---- CLI batch (Spec) ----
    api_key,         \* Config.OPENAI_API_KEY is set
    mode,            \* "stocks" (--stocks) | "discover" (--count)
    output,          \* --output was given
    stocks,          \* the symbols of the batch, in order
    idx,             \* 1-based position of the for loop
    pc,              \* position of main()
    stock_data,      \* snapshot of the symbol in flight (NoData if none)
    results,         \* the list `results` of the loop
    printed,         \* per-symbol console lines, in order
    env,             \* what the collaborators did for each symbol, in order
    calls,           \* external calls issued, in order
    shown,           \* the call of display_binary_summary (NotCalled if none)
    saved,           \* the call of save_binary_results (NotCalled if none)
    exit_code,       \* process exit status (Running until main() has ended)
    interrupts,      \* the interrupts delivered so far: position and step of each
    \* ---- find_top_short_term_stocks (SpecDiscover) ----
    count,           \* the requested number of symbols
    default_stocks,  \* Config.DEFAULT_STOCKS
    disc_response,   \* response.output_text of the discovery request
    disc_raised,     \* the discovery request raised
    symbols,         \* the list returned
    dpc,             \* "call" | "extract" | "done"
    \* ---- save_binary_results and the file read back (SpecSave) ----
    to_save,         \* the list `results` handed to save_binary_results
    file,            \* the JSON document written (NotCalled before)
    loaded,          \* json.load of the file (NotCalled before)
    spc,             \* "save" | "saved" | "loaded"
    \* ---- the indicators of get_stock_data (SpecIndicators) ----
    closes,          \* hist['Close'], oldest bar first
    volumes,         \* hist['Volume'], oldest bar first
    rsi,             \* the 'rsi' of the snapshot returned (NoneV before)
    snapshot,        \* the dict get_stock_data returns (NoneV before)
    ipc,             \* "fetched" | "returned"
    \* ---- format_stock_summary (SpecFormat) ----
    fundamentals,    \* the optional fields of the snapshot handed in
    summary_fields,  \* the text rendered for each of them (NoneV before)
    fpc,             \* "format" | "formatted"
    \* ---- run_interactive_mode (SpecInteractive) ----
    user_input,      \* the line read at the prompt, stripped (NoLine before)
    turn_outcome,    \* how the last pass of the loop went
    turns,           \* the number of lines read at the prompt
    lpc,             \* "start" | "prompt" | "count" | "analyse" | "ended" | "failed"
    \* ---- _get_extended_hours_data (SpecExtended) ----
    info,            \* ticker.info
    hist_1d,         \* ticker.history(period="1d", interval="1m", prepost=True)
    fault,           \* the step of the function that raises ("none" when none)
    extended_data,   \* the dict returned (NoneV before)
    epc,             \* "call" | "returned"
    \* ---- analyze_multiple_stocks (SpecMultiple) ----
    multi_symbols,   \* the argument `symbols`
    max_stocks,      \* Config.MAX_STOCKS_TO_ANALYZE
    multi_results,   \* the dict `results`: the (symbol, analysis) items in insertion order
    multi_raised,    \* the exception that left the function ("none" when none)
    mpc,             \* where the function is: "loop" with the index of the next symbol,
                     \* "returned" or "raised"
    \* ---- display_binary_summary and save_binary_results (SpecStatistics) ----
    summary_results, \* the list `results` both are called with
    statistics,      \* the STATISTICS block printed and the summary saved (NoneV before)
    tpc              \* "summary" | "done"

parseVars == <<response_text, lines, li, result, ppc, escaped, prev_result>>
batchVars == <<api_key, mode, output, stocks, idx, pc, stock_data, results,
               printed, env, calls, shown, saved, exit_code, interrupts>>
discVars == <<count, default_stocks, disc_response, disc_raised, symbols, dpc>>
saveVars == <<to_save, file, loaded, spc>>
indVars == <<closes, volumes, rsi, snapshot, ipc>>
fmtVars == <<fundamentals, summary_fields, fpc>>
loopVars == <<user_input, turn_outcome, turns, lpc>>
extVars == <<info, hist_1d, fault, extended_data, epc>>
multiVars == <<multi_symbols, max_stocks, multi_results, multi_raised, mpc>>
statVars == <<summary_results, statistics, tpc>>
restVars == <<loopVars, extVars, multiVars, statVars>>
auxVars == <<discVars, saveVars, indVars, fmtVars, restVars>>
vars == <<parseVars, batchVars, restVars, auxVars>>

-----------------------------------------------------------------------------
(* Python str primitives over sequences of characters.                     *)

LowerChars == <<"a","b","c","d","e","f","g","h","i","j","k","l","m","n","o","p","q","r","s","t","u","v","w","x","y","z">>
UpperChars == <<"A","B","C","D","E","F","G","H","I","J","K","L","M","N","O","P","Q","R","S","T","U","V","W","X","Y","Z">>
Digits == <<"0","1","2","3","4","5","6","7","8","9">>

MinOf(S) == CHOOSE x \in S : \A y \in S : x <= y

\* str.upper(), character by character
UpperChar(c) ==
    IF \E i \in 1..Len(LowerChars) : LowerChars[i] = c
    THEN UpperChars[CHOOSE i \in 1..Len(LowerChars) : LowerChars[i] = c]
    ELSE c

Upper(s) == [i \in 1..Len(s) |-> UpperChar(s[i])]

\* the start indices of the occurrences of sub in s
Occurrences(s, sub) ==
    {i \in 1..(Len(s) - Len(sub) + 1) : SubSeq(s, i, i + Len(sub) - 1) = sub}

\* `sub in s`
Contains(s, sub) == Occurrences(s, sub) # {}

\* s.find(sub) as a 1-based index (0 when absent)
Find(s, sub) == IF Contains(s, sub) THEN MinOf(Occurrences(s, sub)) ELSE 0

\* s.split(sep)[1] for a line that contains sep: the text between the first
\* occurrence of sep and the next one (or the end of the line)
SplitSecond(s, sep) ==
    LET rest == SubSeq(s, Find(s, sep) + Len(sep), Len(s))
    IN  IF Contains(rest, sep) THEN SubSeq(rest, 1, Find(rest, sep) - 1) ELSE rest

IsSpace(c) == c \in {" ", "\t", "\r", "\n"}

\* s.strip()
Strip(s) ==
    LET keep == {i \in 1..Len(s) : ~IsSpace(s[i])}
    IN  IF keep = {} THEN <<>>
        ELSE SubSeq(s, MinOf(keep), CHOOSE x \in keep : \A y \in keep : y <= x)

\* s.split()[0]: the first whitespace-delimited token; IndexError when there is none
FirstToken(s) ==
    LET t == Strip(s)
        sp == {i \in 1..Len(t) : IsSpace(t[i])}
    IN  IF t = <<>> THEN [exc |-> "IndexError", tok |-> <<>>]
        ELSE [exc |-> "none",
              tok |-> IF sp = {} THEN t ELSE SubSeq(t, 1, MinOf(sp) - 1)]

\* s.replace(ch, '')
RECURSIVE RemoveChar(_, _)
RemoveChar(s, ch) ==
    IF s = <<>> THEN <<>>
    ELSE IF Head(s) = ch THEN RemoveChar(Tail(s), ch)
    ELSE <<Head(s)>> \o RemoveChar(Tail(s), ch)

\* text.split('\n')
RECURSIVE SplitLines(_)
SplitLines(s) ==
    LET nl == {i \in 1..Len(s) : s[i] = "\n"}
    IN  IF nl = {} THEN <<s>>
        ELSE <<SubSeq(s, 1, MinOf(nl) - 1)>> \o SplitLines(SubSeq(s, MinOf(nl) + 1, Len(s)))

\* s[:n], Python's slice: a negative n counts from the end
SliceTo(s, n) ==
    IF n >= 0 THEN SubSeq(s, 1, IF n < Len(s) THEN n ELSE Len(s))
    ELSE SubSeq(s, 1, IF Len(s) + n > 0 THEN Len(s) + n ELSE 0)

\* '\n'.join(ls)
RECURSIVE JoinLines(_)
JoinLines(ls) ==
    IF ls = <<>> THEN <<>>
    ELSE IF Len(ls) = 1 THEN ls[1]
    ELSE ls[1] \o <<"\n">> \o JoinLines(Tail(ls))

-----------------------------------------------------------------------------
(* Python numbers: None, finite decimals num/den (den a power of ten, in   *)
(* lowest such terms, so equal numbers are equal records), +-inf and nan.  *)

NoneV == [kind |-> "none"]
NaN == [kind |-> "nan"]
Inf(neg) == [kind |-> "inf", neg |-> neg]

RECURSIVE Fin(_, _)
Fin(n, d) ==
    IF d > 1 /\ n % 10 = 0 THEN Fin(n \div 10, d \div 10)
    ELSE [kind |-> "fin", num |-> n, den |-> d]

IntV(n) == Fin(n, 1)

RECURSIVE Pow10(_)
Pow10(n) == IF n = 0 THEN 1 ELSE 10 * Pow10(n - 1)

\* a < b on Python floats/ints (every comparison with nan is False)
NumLt(a, b) ==
    IF a.kind = "nan" \/ b.kind = "nan" THEN FALSE
    ELSE IF a.kind = "inf" THEN a.neg /\ ~(b.kind = "inf" /\ b.neg)
    ELSE IF b.kind = "inf" THEN ~b.neg
    ELSE a.num * b.den < b.num * a.den

\* min(a, b) and max(a, b): the first argument unless the second beats it
PyMin(a, b) == IF NumLt(b, a) THEN b ELSE a
PyMax(a, b) == IF NumLt(a, b) THEN b ELSE a

IsIntegerValued(v) == v.kind = "fin" /\ v.den = 1

IsDigit(c) == \E i \in 1..Len(Digits) : Digits[i] = c
DigitVal(c) == (CHOOSE i \in 1..Len(Digits) : Digits[i] = c) - 1
AllDigits(s) == \A i \in 1..Len(s) : IsDigit(s[i])

RECURSIVE DigitsVal(_)
DigitsVal(s) ==
    IF s = <<>> THEN 0
    ELSE DigitsVal(SubSeq(s, 1, Len(s) - 1)) * 10 + DigitVal(s[Len(s)])

TOK_INF == <<"I","N","F">>
TOK_INFINITY == <<"I","N","F","I","N","I","T","Y">>
TOK_NAN == <<"N","A","N">>

\* float(tok) for an unsigned decimal literal: digits [. digits] [E [+-] digits]
ParseDecimal(s) ==
    LET es    == {i \in 1..Len(s) : s[i] \in {"E", "e"}}
        hasE  == es # {}
        mant  == IF hasE THEN SubSeq(s, 1, MinOf(es) - 1) ELSE s
        expo  == IF hasE THEN SubSeq(s, MinOf(es) + 1, Len(s)) ELSE <<>>
        dots  == {i \in 1..Len(mant) : mant[i] = "."}
        ip    == IF dots = {} THEN mant ELSE SubSeq(mant, 1, MinOf(dots) - 1)
        fp    == IF dots = {} THEN <<>> ELSE SubSeq(mant, MinOf(dots) + 1, Len(mant))
        eSgn  == expo # <<>> /\ expo[1] \in {"+", "-"}
        eDig  == IF eSgn THEN Tail(expo) ELSE expo
        eVal  == IF expo # <<>> /\ expo[1] = "-" THEN 0 - DigitsVal(eDig) ELSE DigitsVal(eDig)
        okM   == AllDigits(ip) /\ AllDigits(fp) /\ Len(ip) + Len(fp) >= 1
        okE   == ~hasE \/ (eDig # <<>> /\ AllDigits(eDig))
        shift == eVal - Len(fp)
    IN  IF okM /\ okE
        THEN [exc |-> "none",
              val |-> IF shift >= 0 THEN Fin(DigitsVal(ip \o fp) * Pow10(shift), 1)
                      ELSE Fin(DigitsVal(ip \o fp), Pow10(0 - shift))]
        ELSE [exc |-> "ValueError", val |-> NoneV]

\* the decimal literal `dec` under its sign
WithSign(dec, neg) ==
    IF dec.exc = "none" /\ neg
    THEN [exc |-> "none", val |-> Fin(0 - dec.val.num, dec.val.den)]
    ELSE dec

\* float(tok): optional sign, then inf / infinity / nan (any case) or a decimal
\* literal; ValueError otherwise
ParseFloat(tok) ==
    LET signed == tok # <<>> /\ tok[1] \in {"+", "-"}
        neg    == tok # <<>> /\ tok[1] = "-"
        body   == IF signed THEN Tail(tok) ELSE tok
        ub     == Upper(body)
    IN  IF ub = TOK_INF \/ ub = TOK_INFINITY THEN [exc |-> "none", val |-> Inf(neg)]
        ELSE IF ub = TOK_NAN THEN [exc |-> "none", val |-> NaN]
        ELSE WithSign(ParseDecimal(body), neg)

\* float(s.split()[0]): IndexError from [0], ValueError from float()
FloatOfFirstToken(s) ==
    LET ft == FirstToken(s)
    IN  IF ft.exc # "none" THEN [exc |-> ft.exc, val |-> NoneV]
        ELSE ParseFloat(ft.tok)

-----------------------------------------------------------------------------
(* StockAnalyzer._parse_binary_response                                    *)

LBL_DECISION == <<"D","E","C","I","S","I","O","N",":">>
LBL_CONFIDENCE == <<"C","O","N","F","I","D","E","N","C","E",":">>
LBL_TARGET == <<"T","A","R","G","E","T",":">>
LBL_STOP_LOSS == <<"S","T","O","P"," ","L","O","S","S",":">>
LBL_CATALYST == <<"C","A","T","A","L","Y","S","T",":">>
LBL_TIMEFRAME == <<"T","I","M","E","F","R","A","M","E",":">>
TOK_BUY == <<"B","U","Y">>
TOK_SELL == <<"S","E","L","L">>
DEFAULT_TIMEFRAME == <<"1","-","5"," ","d","a","y","s">>

DEFAULT_CONFIDENCE == 5
CONF_MIN == 1
CONF_MAX == 10
CATALYST_MAX == 100

\* mutant of DefaultResult: the default decision of the three-way parser
DefaultResult_Hold(text, sd) ==
    [symbol        |-> sd.symbol,
     current_price |-> sd.current_price,
     decision      |-> "hold",
     confidence    |-> IntV(5),
     target_price  |-> NoneV,
     stop_loss     |-> NoneV,
     catalyst      |-> <<>>,
     timeframe     |-> <<"1","-","5"," ","d","a","y","s">>,
     reasoning     |-> text]

\* the dict literal the parser starts from (analysis_timestamp, a clock value,
\* is left out)
DefaultResult(text, sd) ==
    [symbol        |-> sd.symbol,
     current_price |-> sd.current_price,
     decision      |-> "sell",
     confidence    |-> IntV(DEFAULT_CONFIDENCE),
     target_price  |-> NoneV,
     stop_loss     |-> NoneV,
     catalyst      |-> <<>>,
     timeframe     |-> DEFAULT_TIMEFRAME,
     reasoning     |-> text]

\* mutant of DecisionOf: a value with neither token resets the decision to
\* the default
DecisionOf_Reset(old, value) ==
    IF Contains(value, TOK_BUY) THEN "buy"
    ELSE IF Contains(value, TOK_SELL) THEN "sell"
    ELSE "sell"

\* mutant of DecisionOf: a third branch that records HOLD
DecisionOf_WithHold(old, value) ==
    IF Contains(value, <<"B","U","Y">>) THEN "buy"
    ELSE IF Contains(value, <<"S","E","L","L">>) THEN "sell"
    ELSE IF Contains(value, <<"H","O","L","D">>) THEN "hold"
    ELSE old

\* if 'BUY' in decision: 'buy' / elif 'SELL' in decision: 'sell' (else unchanged)
DecisionOf(old, value) ==
    IF Contains(value, TOK_BUY) THEN "buy"
    ELSE IF Contains(value, TOK_SELL) THEN "sell"
    ELSE old

DecisionBranch(r, line) ==
    [result |-> [r EXCEPT !.decision = DecisionOf(@, Strip(SplitSecond(line, LBL_DECISION)))],
     exc    |-> "none"]

\* max(1, min(10, conf))
ClampConfidence(conf) == PyMax(IntV(CONF_MIN), PyMin(IntV(CONF_MAX), conf))

\* float(line.split('CONFIDENCE:')[1].strip().split()[0])
ConfidenceValue(line) == FloatOfFirstToken(Strip(SplitSecond(line, LBL_CONFIDENCE)))

\* mutant of ConfidenceBranch: no try / except around the conversion
ConfidenceBranch_NoExcept(r, line) ==
    LET conf == ConfidenceValue(line)
    IN  IF conf.exc = "none"
        THEN [result |-> [r EXCEPT !.confidence = ClampConfidence(conf.val)], exc |-> "none"]
        ELSE [result |-> r, exc |-> conf.exc]

\* try: ... result['confidence'] = max(1, min(10, conf)) / except: pass
ConfidenceBranch(r, line) ==
    LET conf == ConfidenceValue(line)
    IN  IF conf.exc = "none"
        THEN [result |-> [r EXCEPT !.confidence = ClampConfidence(conf.val)], exc |-> "none"]
        ELSE [result |-> r, exc |-> "none"]

\* float(price_str.replace('$', '').split()[0]) for price_str = line.split(label)[1].strip()
PriceValue(line, label) ==
    FloatOfFirstToken(RemoveChar(Strip(SplitSecond(line, label)), "$"))

\* mutant of TargetBranch: a value that is no price resets the field
TargetBranch_ResetsOnFailure(r, line) ==
    LET price == PriceValue(line, LBL_TARGET)
    IN  IF price.exc = "none"
        THEN [result |-> [r EXCEPT !.target_price = price.val], exc |-> "none"]
        ELSE [result |-> [r EXCEPT !.target_price = NoneV], exc |-> "none"]

\* try: ... result['target_price'] = price / except: pass
TargetBranch(r, line) ==
    LET price == PriceValue(line, LBL_TARGET)
    IN  IF price.exc = "none"
        THEN [result |-> [r EXCEPT !.target_price = price.val], exc |-> "none"]
        ELSE [result |-> r, exc |-> "none"]

\* try: ... result['stop_loss'] = price / except: pass
StopLossBranch(r, line) ==
    LET price == PriceValue(line, LBL_STOP_LOSS)
    IN  IF price.exc = "none"
        THEN [result |-> [r EXCEPT !.stop_loss = price.val], exc |-> "none"]
        ELSE [result |-> r, exc |-> "none"]

\* catalyst[:100]
Truncate(s, n) == SubSeq(s, 1, IF Len(s) < n THEN Len(s) ELSE n)

CatalystBranch(r, line) ==
    [result |-> [r EXCEPT !.catalyst = Truncate(Strip(SplitSecond(line, LBL_CATALYST)), CATALYST_MAX)],
     exc    |-> "none"]

TimeframeBranch(r, line) ==
    [result |-> [r EXCEPT !.timeframe = Strip(SplitSecond(line, LBL_TIMEFRAME))],
     exc    |-> "none"]

\* which branch of the if / elif chain takes the line ("" when none does)
BranchOf(line) ==
    IF Contains(line, LBL_DECISION) THEN "decision"
    ELSE IF Contains(line, LBL_CONFIDENCE) THEN "confidence"
    ELSE IF Contains(line, LBL_TARGET) THEN "target"
    ELSE IF Contains(line, LBL_STOP_LOSS) THEN "stop_loss"
    ELSE IF Contains(line, LBL_CATALYST) THEN "catalyst"
    ELSE IF Contains(line, LBL_TIMEFRAME) THEN "timeframe"
    ELSE ""

\* the body of `for line in lines`: the new result and the exception that
\* leaves the body ("none" when none does)
ParseLine(r, line) ==
    CASE BranchOf(line) = "decision"   -> DecisionBranch(r, line)
      [] BranchOf(line) = "confidence" -> ConfidenceBranch(r, line)
      [] BranchOf(line) = "target"     -> TargetBranch(r, line)
      [] BranchOf(line) = "stop_loss"  -> StopLossBranch(r, line)
      [] BranchOf(line) = "catalyst"   -> CatalystBranch(r, line)
      [] BranchOf(line) = "timeframe"  -> TimeframeBranch(r, line)
      [] OTHER                         -> [result |-> r, exc |-> "none"]

\* `except Exception as e:` around the loop: does it catch exc?
OuterCatches(exc) == TRUE

RECURSIVE ParseFrom(_, _, _)

\* after the body has run on line k with outcome `out`: the next line, or the
\* handler around the loop when an exception left the body
ParseAfter(out, ls, k) ==
    IF out.exc = "none" THEN ParseFrom(out.result, ls, k + 1) ELSE out.result

\* the loop from line k on; an exception leaving the body ends the loop
ParseFrom(r, ls, k) ==
    IF k > Len(ls) THEN r ELSE ParseAfter(ParseLine(r, ls[k]), ls, k)

\* _parse_binary_response(response_text, stock_data)
ParseBinaryResponse(text, sd) ==
    ParseFrom(DefaultResult(text, sd), SplitLines(Upper(text)), 1)

\* the branches of the loop body whose conversion runs inside
\* `try: ... except: pass`
BareExcept == {"confidence", "target", "stop_loss"}

\* does a handler inside the loop body take exc raised while `line` is
\* processed?  A bare `except:` takes every exception, KeyboardInterrupt too
InnerCatches(line, exc) == BranchOf(line) \in BareExcept

\* the loop body on `line` when a KeyboardInterrupt is raised during it
ParseLineInterrupted(r, line) ==
    [result |-> r,
     exc    |-> IF InnerCatches(line, "KeyboardInterrupt") THEN "none" ELSE "KeyboardInterrupt"]

\* the loop after the interrupted line k: it goes on with line k + 1 when a
\* handler inside the body took the interrupt, and is left otherwise
ParseResumed(out, ls, k) ==
    IF out.exc = "none"
    THEN [result |-> ParseFrom(out.result, ls, k + 1), exc |-> "none"]
    ELSE [result |-> NoneV, exc |-> out.exc]

\* _parse_binary_response when a KeyboardInterrupt is raised while line k is
\* processed: `except Exception` around the loop does not take it
ParseInterrupted(text, sd, k) ==
    ParseResumed(
        ParseLineInterrupted(
            ParseFrom(DefaultResult(text, sd), SubSeq(SplitLines(Upper(text)), 1, k - 1), 1),
            SplitLines(Upper(text))[k]),
        SplitLines(Upper(text)), k)

-----------------------------------------------------------------------------
(* Bounded response texts.                                                 *)

MaxLines == 2

V_BUY == <<"B","U","Y">>
V_SELL_NOT_BUY == <<"S","E","L","L",","," ","N","O","T"," ","B","U","Y">>
V_BUY_NOT_SELL == <<"B","U","Y",","," ","N","O","T"," ","S","E","L","L">>
V_sell == <<"s","e","l","l">>
V_HOLD == <<"H","O","L","D">>
V_12 == <<"1","2">>
V_7_5 == <<"7",".","5">>
V_0 == <<"0">>
V_high == <<"h","i","g","h">>
V_150_5 == <<"$","1","5","0",".","5">>
V_140 == <<"$","1","4","0">>
V_NA == <<"N","/","A">>
V_earnings == <<"s","t","r","o","n","g"," ","e","a","r","n","i","n","g","s">>
V_days == <<"2","-","3"," ","d","a","y","s">>
V_nan == <<"n","a","n">>
V_8_of_10 == <<"8","/","1","0">>
LBL_decision_lower == <<"d","e","c","i","s","i","o","n",":">>

\* a catalyst text one character longer than the parser keeps
V_long == [i \in 1..(CATALYST_MAX + 1) |-> IF i % 2 = 1 THEN "u" ELSE "p"]

Line(label, value) == label \o <<" ">> \o value

LinePool ==
    { Line(LBL_DECISION, V_BUY),
      Line(LBL_DECISION, V_SELL_NOT_BUY),
      Line(LBL_DECISION, V_BUY_NOT_SELL),
      Line(LBL_DECISION, V_sell),
      Line(LBL_DECISION, V_HOLD),
      Line(LBL_CONFIDENCE, V_12),
      Line(LBL_CONFIDENCE, V_7_5),
      Line(LBL_CONFIDENCE, V_0),
      Line(LBL_CONFIDENCE, V_high),
      LBL_CONFIDENCE,
      Line(LBL_TARGET, V_150_5),
      Line(LBL_TARGET, V_NA),
      Line(LBL_STOP_LOSS, V_140),
      Line(LBL_STOP_LOSS, V_NA),
      Line(LBL_CATALYST, V_earnings),
      Line(LBL_CATALYST, V_long),
      Line(LBL_TIMEFRAME, V_days),
      Line(LBL_decision_lower, V_BUY),
      Line(LBL_DECISION, Line(LBL_DECISION, V_BUY)),
      Line(LBL_CONFIDENCE, V_nan),
      Line(LBL_CONFIDENCE, V_8_of_10),
      Line(Line(LBL_TARGET, V_150_5), Line(LBL_STOP_LOSS, V_140)),
      <<>> }

\* the response of the specification's scenario, in the exact output format
ScenarioLines ==
    << Line(LBL_DECISION, V_BUY), Line(LBL_CONFIDENCE, V_12), Line(LBL_TARGET, V_150_5),
       Line(LBL_STOP_LOSS, V_140), Line(LBL_CATALYST, V_earnings), Line(LBL_TIMEFRAME, V_days) >>

ScenarioText == JoinLines(ScenarioLines)

Texts ==
    {JoinLines(ls) : ls \in UNION {[1..n -> LinePool] : n \in 0..MaxLines}}
        \cup {ScenarioText}

SampleData == [symbol |-> "AAPL", current_price |-> IntV(100)]

NotStarted == [kind |-> "unset"]

\* display_binary_summary / save_binary_results have not been called
NotCalled == [called |-> FALSE]

\* exit_code while main() has not ended
Running == 0 - 1

-----------------------------------------------------------------------------
(* SpecParse: _parse_binary_response, one loop iteration per step.         *)

DiscIdle ==
    /\ count = 0 /\ default_stocks = <<>> /\ disc_response = <<>>
    /\ disc_raised = FALSE /\ symbols = <<>> /\ dpc = "idle"

SaveIdle ==
    /\ to_save = <<>> /\ file = [called |-> FALSE]
    /\ loaded = [called |-> FALSE] /\ spc = "idle"

IndIdle ==
    /\ closes = <<>> /\ volumes = <<>> /\ rsi = NoneV
    /\ snapshot = NoneV /\ ipc = "idle"

FmtIdle == fundamentals = NoneV /\ summary_fields = NoneV /\ fpc = "idle"

\* user_input before a line was read: no text
NoLine == <<"<unset>">>

LoopIdle ==
    user_input = NoLine /\ turn_outcome = "none" /\ turns = 0 /\ lpc = "idle"

ExtIdle ==
    /\ info = NoneV /\ hist_1d = NoneV /\ fault = "none"
    /\ extended_data = NoneV /\ epc = "idle"

MultiIdle ==
    /\ multi_symbols = <<>> /\ max_stocks = 0 /\ multi_results = <<>>
    /\ multi_raised = "none" /\ mpc = [at |-> "idle", i |-> 0]

StatIdle == summary_results = <<>> /\ statistics = NoneV /\ tpc = "idle"

RestIdle == LoopIdle /\ ExtIdle /\ MultiIdle /\ StatIdle

AuxIdle == DiscIdle /\ SaveIdle /\ IndIdle /\ FmtIdle /\ RestIdle

BatchIdle ==
    /\ api_key = TRUE /\ mode = "stocks" /\ output = FALSE /\ stocks = <<>>
    /\ idx = 1 /\ pc = "idle" /\ stock_data = NoneV /\ results = <<>>
    /\ printed = <<>> /\ env = <<>> /\ calls = <<>>
    /\ shown = NotCalled /\ saved = NotCalled /\ exit_code = Running
    /\ interrupts = <<>>

InitParse ==
    /\ response_text \in Texts
    /\ lines = <<>>
    /\ li = 1
    /\ result = NotStarted
    /\ prev_result = NotStarted
    /\ ppc = "start"
    /\ escaped = "none"
    /\ BatchIdle
    /\ AuxIdle

\* lines 441-456: the defaults, then response_text.upper().split('\n')
ParseStart ==
    /\ ppc = "start"
    /\ result' = DefaultResult(response_text, SampleData)
    /\ prev_result' = DefaultResult(response_text, SampleData)
    /\ lines' = SplitLines(Upper(response_text))
    /\ li' = 1
    /\ ppc' = "loop"
    /\ UNCHANGED <<response_text, escaped, batchVars, auxVars>>

\* lines 458-498: one iteration of the loop; an exception leaving the body
\* goes to the handler around the loop, which ends the loop
ParseLineStep ==
    /\ ppc = "loop"
    /\ li <= Len(lines)
    /\ LET out == ParseLine(result, lines[li])
       IN  /\ result' = out.result
           /\ prev_result' = result
           /\ IF out.exc = "none"
              THEN li' = li + 1 /\ ppc' = "loop" /\ escaped' = escaped
              ELSE /\ li' = li
                   /\ ppc' = "done"
                   /\ escaped' = IF OuterCatches(out.exc) THEN escaped ELSE out.exc
    /\ UNCHANGED <<response_text, lines, batchVars, auxVars>>

\* line 500: return result
ParseReturn ==
    /\ ppc = "loop"
    /\ li > Len(lines)
    /\ ppc' = "done"
    /\ UNCHANGED <<response_text, lines, li, result, prev_result, escaped, batchVars, auxVars>>

NextParse == ParseStart \/ ParseLineStep \/ ParseReturn

SpecParse == InitParse /\ [][NextParse]_vars

-----------------------------------------------------------------------------
(* Spec: the CLI batch, main() with --stocks or --count.                   *)

MaxStocks == 3

Symbols == {"AAPL", "MSFT"}

\* --stocks SYM1,SYM2,...: a non-empty list, repetitions allowed
StocksArgs == UNION {[1..n -> Symbols] : n \in 1..MaxStocks}

\* what find_top_short_term_stocks returns: a list of symbols, possibly
\* empty; a configured default list may name a symbol twice
DiscoveredLists == UNION {[1..n -> Symbols] : n \in 0..MaxStocks}

\* the LLM's answers in the batch
BatchTexts ==
    { ScenarioText,
      JoinLines(<<Line(LBL_DECISION, V_sell), Line(LBL_CONFIDENCE, V_7_5)>>),
      <<>> }

\* the snapshot get_stock_data returns for a symbol
Snapshot(symbol) == [symbol |-> symbol, current_price |-> IntV(100)]

\* what yfinance does for one symbol: the history comes back with bars, comes
\* back empty, or the request raises
FetchOutcomes == {"bars", "empty", "raises"}

\* get_stock_data: `if hist.empty: return None`; everything is inside
\* `try: ... except Exception: return None`
GetStockData(symbol, hist) ==
    IF hist = "empty" THEN NoneV
    ELSE IF hist = "raises" THEN NoneV
    ELSE Snapshot(symbol)

\* mutant of NoData: the early return for a missing snapshot is gone
NoData_Never(sd) == FALSE

\* `if not stock_data:` of analyze_stock_for_binary_decision
NoData(sd) == sd = NoneV

\* mutant of ValidateConfig: the credential is not checked
ValidateConfig_Unchecked(key) == "none"

\* Config.validate_config: raises ValueError without the credential
ValidateConfig(key) == IF key THEN "none" ELSE "ValueError"

\* {"error": ...}
ErrorEntry(msg, symbol) == [error |-> <<msg, symbol>>]

\* 'error' in analysis
HasError(a) == "error" \in DOMAIN a

\* mutant of WithRawResponse: the uppercased text is stored
WithRawResponse_Upper(r, text) == [raw_response |-> Upper(text)] @@ r

\* analysis_result['raw_response'] = response.output_text
WithRawResponse(r, text) == [raw_response |-> text] @@ r

\* mutant of AnalyzeCatches: the LLM call is not inside the try
AnalyzeCatches_Nothing(exc) == FALSE

\* `except Exception as e:` of analyze_stock_for_binary_decision: Exception
\* and its subclasses, not KeyboardInterrupt
AnalyzeCatches(exc) == exc # "KeyboardInterrupt"

\* mutant of KeepResult: every analysis is collected
KeepResult_Always(a) == TRUE

\* `if 'error' not in analysis:` of the loop
KeepResult(a) == ~HasError(a)

\* mutant of Collect: results.insert(0, analysis)
Collect_Prepend(rs, a) == <<a>> \o rs

\* results.append(analysis)
Collect(rs, a) == Append(rs, a)

\* the console line of the loop for one symbol
ConsoleLine(symbol, a) ==
    IF KeepResult(a) THEN [symbol |-> symbol, kind |-> "result"]
    ELSE [symbol |-> symbol, kind |-> "error", error |-> a.error]

\* r.get('decision') == d
DecisionIs(r, d) == "decision" \in DOMAIN r /\ r.decision = d

TOP_PICKS == 3

\* x.get('confidence', 0)
ConfidenceKey(r) == IF "confidence" \in DOMAIN r THEN r.confidence ELSE IntV(0)

\* one step of the stable descending sort: r goes behind every entry whose
\* key is not smaller than its own
RECURSIVE InsertByConfidence(_, _)
InsertByConfidence(sorted, r) ==
    IF sorted = <<>> THEN <<r>>
    ELSE IF NumLt(ConfidenceKey(Head(sorted)), ConfidenceKey(r))
         THEN <<r>> \o sorted
    ELSE <<Head(sorted)>> \o InsertByConfidence(Tail(sorted), r)

\* mutant of SortedByConfidence: the list is left in its order
SortedByConfidence_Unsorted(rs) == rs

\* sorted(rs, key=lambda x: x.get('confidence', 0), reverse=True): stable,
\* equal keys keep their order
RECURSIVE SortedByConfidence(_)
SortedByConfidence(rs) ==
    IF rs = <<>> THEN <<>>
    ELSE InsertByConfidence(SortedByConfidence(SubSeq(rs, 1, Len(rs) - 1)), rs[Len(rs)])

\* [r for r in results if r.get('decision') == d]
WithDecision(rs, d) == SelectSeq(rs, LAMBDA r : DecisionIs(r, d))

\* [r['symbol'] for r in sorted(...)[:3]]
TopPicks(rs, d) ==
    LET top == SliceTo(SortedByConfidence(WithDecision(rs, d)), TOP_PICKS)
    IN  [k \in 1..Len(top) |-> top[k].symbol]

\* the counts and the picks of save_binary_results' summary
SummaryOf(rs) ==
    [total_analyzed |-> Len(rs),
     buy_signals    |-> Cardinality({k \in 1..Len(rs) : DecisionIs(rs[k], "buy")}),
     sell_signals   |-> Cardinality({k \in 1..Len(rs) : DecisionIs(rs[k], "sell")}),
     top_buy_picks  |-> TopPicks(rs, "buy"),
     top_sell_picks |-> TopPicks(rs, "sell")]

Call(op, i) == [op |-> op, i |-> i]

\* mutant of LLMRequests: the request is issued a second time
LLMRequests_Retry(i) == <<Call("llm", i), Call("llm", i)>>

\* the one self.client.responses.create(...) of an analysis
LLMRequests(i) == <<Call("llm", i)>>

\* _parse_binary_response(response.output_text, stock_data): the parse step,
\* with the text the LLM returned
ParseCall(i, text) == [op |-> "parse", i |-> i, text |-> text]

ParseIdle ==
    /\ response_text = <<>> /\ lines = <<>> /\ li = 1 /\ result = NotStarted
    /\ prev_result = NotStarted /\ ppc = "idle" /\ escaped = "none"

\* main.py 50, 64, 101: --single SYM, --stocks LIST, or neither (discovery)
Modes == {"single", "stocks", "discover"}

\* main.py 57-62, 93-99, 105-114: display_binary_summary and
\* save_binary_results are reached after a --stocks batch, and after a
\* discovery batch that has results; the --single branch has neither
SummaryWanted(m, rs) == m = "stocks" \/ (m = "discover" /\ rs # <<>>)

Init ==
    /\ ParseIdle
    /\ AuxIdle
    /\ api_key \in BOOLEAN
    /\ mode \in Modes
    /\ output \in BOOLEAN
    /\ stocks \in IF mode = "stocks" THEN StocksArgs
                  ELSE IF mode = "single" THEN {<<sym>> : sym \in Symbols}
                  ELSE {<<>>}
    /\ idx = 1
    /\ pc = "construct"
    /\ stock_data = NoneV
    /\ results = <<>>
    /\ printed = <<>>
    /\ env = <<>>
    /\ calls = <<>>
    /\ shown = NotCalled
    /\ saved = NotCalled
    /\ exit_code = Running
    /\ interrupts = <<>>

\* main.py 46-48 and 119-121: StockAnalyzer() validates the configuration; a
\* ValueError goes to main's `except Exception` and sys.exit(1)
Construct ==
    /\ pc = "construct"
    /\ IF ValidateConfig(api_key) = "none"
       THEN /\ pc' = IF mode = "discover" THEN "discover" ELSE "fetch"
            /\ exit_code' = exit_code
       ELSE /\ pc' = "end"
            /\ exit_code' = 1
    /\ UNCHANGED <<api_key, mode, output, stocks, idx, stock_data, results,
                   printed, env, calls, shown, saved, interrupts, parseVars, auxVars>>

\* stock_analyzer.py 518-522, main.py 103-114: discovery; with no symbol
\* run_complete_binary_analysis returns [] and main reports no results
Discover ==
    /\ pc = "discover"
    /\ \E found \in DiscoveredLists :
          /\ stocks' = found
          /\ calls' = Append(calls, Call("discover", 0))
          /\ IF found = <<>>
             THEN pc' = "end" /\ exit_code' = 0
             ELSE pc' = "fetch" /\ exit_code' = exit_code
    /\ UNCHANGED <<api_key, mode, output, idx, stock_data, results, printed,
                   env, shown, saved, interrupts, parseVars, auxVars>>

\* the rest of one loop iteration once analyze_stock_for_binary_decision has
\* returned `a`: collect or print the error, then the next symbol
LoopBody(a, outcome) ==
    /\ results' = IF KeepResult(a) THEN Collect(results, a) ELSE results
    /\ printed' = Append(printed, ConsoleLine(stocks[idx], a))
    /\ env' = Append(env, outcome)
    /\ idx' = idx + 1
    /\ pc' = IF idx + 1 > Len(stocks) THEN "summary" ELSE "fetch"
    /\ stock_data' = NoneV

\* an exception that leaves the loop: main's handlers, sys.exit(1)
Abort(outcome) ==
    /\ env' = Append(env, outcome)
    /\ pc' = "end"
    /\ exit_code' = 1
    /\ UNCHANGED <<results, printed, idx, stock_data>>

\* stock_analyzer.py 146-160: get_stock_data is called; without a snapshot the
\* error entry is returned at once, with one the market overview, the summary
\* and the prompt are built
FetchStep(hist) ==
    LET sd == GetStockData(stocks[idx], hist) IN
    IF NoData(sd)
    THEN /\ calls' = Append(calls, Call("fetch", idx))
         /\ LoopBody(ErrorEntry("Could not fetch data for", stocks[idx]), "nodata")
    ELSE /\ stock_data' = sd
         /\ calls' = calls \o <<Call("fetch", idx), Call("prompt", idx)>>
         /\ pc' = "llm"
         /\ UNCHANGED <<idx, results, printed, env>>

\* stock_analyzer.py 146-160: the history has bars
FetchOk ==
    /\ pc = "fetch"
    /\ idx <= Len(stocks)
    /\ FetchStep("bars")
    /\ UNCHANGED <<api_key, mode, output, stocks, shown, saved, exit_code, interrupts,
                   parseVars, auxVars>>

\* stock_analyzer.py 146-148: the history is empty or the fetch raised
FetchNone ==
    /\ pc = "fetch"
    /\ idx <= Len(stocks)
    /\ \E hist \in FetchOutcomes \ {"bars"} : FetchStep(hist)
    /\ UNCHANGED <<api_key, mode, output, stocks, shown, saved, exit_code, interrupts,
                   parseVars, auxVars>>

\* an interrupt delivered while step `at` of position i was running
Signal(i, at) == [i |-> i, at |-> at]

\* stock_analyzer.py 174-190: the LLM call raises exc
LLMRaises ==
    /\ pc = "llm"
    /\ calls' = calls \o LLMRequests(idx)
    /\ \E exc \in {"APIError", "KeyboardInterrupt"} :
          /\ interrupts' = IF exc = "KeyboardInterrupt"
                           THEN Append(interrupts, Signal(idx, "llm")) ELSE interrupts
          /\ IF AnalyzeCatches(exc)
             THEN /\ LoopBody(ErrorEntry("Analysis failed for", stocks[idx]), "llm_error")
                  /\ exit_code' = exit_code
             ELSE Abort(IF exc = "KeyboardInterrupt" THEN "interrupt" ELSE "llm_error")
    /\ UNCHANGED <<api_key, mode, output, stocks, shown, saved, parseVars, auxVars>>

\* stock_analyzer.py 174-187: the LLM call returns a text, which is parsed
LLMResponds ==
    /\ pc = "llm"
    /\ \E text \in BatchTexts :
          /\ LoopBody(WithRawResponse(ParseBinaryResponse(text, stock_data), text), "ok")
          /\ calls' = calls \o LLMRequests(idx) \o <<ParseCall(idx, text)>>
    /\ UNCHANGED <<api_key, mode, output, stocks, shown, saved, exit_code, interrupts,
                   parseVars, auxVars>>

\* main.py 57-62 (--single), 93-99 (--stocks) and 105-114 (--count): the
\* summary, then the file
Finish ==
    /\ pc = "summary"
    /\ shown' = IF SummaryWanted(mode, results)
                THEN [called |-> TRUE, list |-> results] ELSE shown
    /\ saved' = IF output /\ SummaryWanted(mode, results)
                THEN [called |-> TRUE, summary |-> SummaryOf(results), all_results |-> results]
                ELSE saved
    /\ pc' = "end"
    /\ exit_code' = 0
    /\ UNCHANGED <<api_key, mode, output, stocks, idx, stock_data, results,
                   printed, env, calls, interrupts, parseVars, auxVars>>

\* market_data.py 28-87, main.py 116-118: an interrupt arrives while
\* get_stock_data runs; its handler is `except Exception`, so the
\* KeyboardInterrupt reaches main
InterruptFetch ==
    /\ pc = "fetch"
    /\ idx <= Len(stocks)
    /\ calls' = Append(calls, Call("fetch", idx))
    /\ interrupts' = Append(interrupts, Signal(idx, "fetch"))
    /\ Abort("interrupt")
    /\ UNCHANGED <<api_key, mode, output, stocks, shown, saved, parseVars, auxVars>>

\* stock_analyzer.py 184-187, main.py 116-118: what follows the interrupted
\* parse `out` of `text`: the next symbol when the parser returned, main's
\* handler when the interrupt left it
ParseInterruptedStep(out, text) ==
    IF out.exc = "none"
    THEN /\ LoopBody(WithRawResponse(out.result, text), "ok")
         /\ calls' = calls \o LLMRequests(idx) \o <<ParseCall(idx, text)>>
         /\ exit_code' = exit_code
    ELSE /\ Abort("interrupt")
         /\ calls' = calls \o LLMRequests(idx)

\* stock_analyzer.py 174-187 and 455-497: the LLM call returns a text and an
\* interrupt arrives while line k of it is parsed; the parse entry of the
\* log is written when the parser returns
InterruptParse ==
    /\ pc = "llm"
    /\ \E text \in BatchTexts : \E k \in 1..Len(SplitLines(Upper(text))) :
          /\ interrupts' = Append(interrupts, Signal(idx, "parse"))
          /\ ParseInterruptedStep(ParseInterrupted(text, stock_data, k), text)
    /\ UNCHANGED <<api_key, mode, output, stocks, shown, saved, parseVars, auxVars>>

Next ==
    \/ Construct \/ Discover \/ FetchOk \/ FetchNone \/ LLMRaises \/ LLMResponds
    \/ InterruptFetch \/ InterruptParse \/ Finish

Spec == Init /\ [][Next]_vars

-----------------------------------------------------------------------------
(* SpecDiscover: StockAnalyzer.find_top_short_term_stocks.                 *)

MaxCount == 3

COMMA == <<",">>
BASED_ON == <<"B","a","s","e","d"," ","o","n">>
HERE_ARE == <<"H","e","r","e"," ","a","r","e">>
D_SCENARIO == <<"H","e","r","e"," ","a","r","e"," ","s","o","m","e"," ","p","i","c","k","s",":"," ","A","A","P","L",",","M","S","F","T",",","G","O","O","G","L">>
D_PLAIN == <<"A","A","P","L",",","M","S","F","T",",","G","O","O","G","L">>
D_MIXED == <<"n","v","d","a",","," ","a","a","p","l"," ",",","N","V","D","A">>
D_SINGLE == <<"T","S","L","A">>
D_BASED == <<"B","a","s","e","d"," ","o","n"," ","m","o","m","e","n","t","u","m",","," ","T","S","L","A">>
D_INVALID == <<"T","O","O","L","O","N","G",",","X","1",",",",","M","E","T","A">>
S_AAPL == <<"A","A","P","L">>
S_GOOGL == <<"G","O","O","G","L">>
S_MSFT == <<"M","S","F","T">>
S_TSLA == <<"T","S","L","A">>
S_NVDA == <<"N","V","D","A">>
S_META == <<"M","E","T","A">>
S_AMZN == <<"A","M","Z","N">>
S_SPY == <<"S","P","Y">>
S_QQQ == <<"Q","Q","Q">>
S_IWM == <<"I","W","M">>

\* the built-in value of Config.DEFAULT_STOCKS
DEFAULT_STOCKS ==
    <<S_AAPL, S_GOOGL, S_MSFT, S_TSLA, S_NVDA, S_META, S_AMZN, S_SPY, S_QQQ, S_IWM>>

\* Config.DEFAULT_STOCKS = os.getenv('DEFAULT_STOCKS', <built-in>).split(','):
\* the built-in list, or whatever the environment names
DefaultStocksValues == {DEFAULT_STOCKS, <<S_AAPL, S_AAPL, S_MSFT>>}

\* --count N (type=int) or the interactive int(count)
Counts == (0 - 1)..MaxCount

\* s.split(ch)
RECURSIVE SplitOn(_, _)
SplitOn(s, ch) ==
    LET at == {i \in 1..Len(s) : s[i] = ch}
    IN  IF at = {} THEN <<s>>
        ELSE <<SubSeq(s, 1, MinOf(at) - 1)>> \o SplitOn(SubSeq(s, MinOf(at) + 1, Len(s)), ch)

\* s.startswith(prefix)
StartsWith(s, prefix) ==
    Len(s) >= Len(prefix) /\ SubSeq(s, 1, Len(prefix)) = prefix

\* s.isalpha(): at least one character and only letters
IsAlpha(s) ==
    /\ s # <<>>
    /\ \A i \in 1..Len(s) :
          \E j \in 1..Len(LowerChars) : s[i] = LowerChars[j] \/ s[i] = UpperChars[j]

\* symbol.isalpha() and 1 <= len(symbol) <= 5
ValidSymbol(s) == IsAlpha(s) /\ 1 <= Len(s) /\ Len(s) <= 5

\* ',' in line and not line.startswith('Based on') and not
\* line.startswith('Here are')
LineHasSymbols(line) ==
    /\ Contains(line, COMMA)
    /\ ~StartsWith(line, BASED_ON)
    /\ ~StartsWith(line, HERE_ARE)

\* [s.strip().upper() for s in line.split(',')]
PotentialSymbols(line) ==
    LET parts == SplitOn(line, ",")
    IN  [i \in 1..Len(parts) |-> Upper(Strip(parts[i]))]

\* the symbols one line appends
LineSymbols(line) ==
    IF LineHasSymbols(line) THEN SelectSeq(PotentialSymbols(line), ValidSymbol)
    ELSE <<>>

\* the for loop over response_text.split('\n')
RECURSIVE SymbolsOfLines(_)
SymbolsOfLines(ls) ==
    IF ls = <<>> THEN <<>>
    ELSE LineSymbols(Head(ls)) \o SymbolsOfLines(Tail(ls))

\* mutant of DictFromKeys: repetitions are kept
DictFromKeys_Keep(s) == s

\* list(dict.fromkeys(s)): the first occurrence of each element, in order
RECURSIVE DictFromKeys(_)
DictFromKeys(s) ==
    IF s = <<>> THEN <<>>
    ELSE LET d == DictFromKeys(SubSeq(s, 1, Len(s) - 1))
             x == s[Len(s)]
         IN  IF \E i \in 1..Len(d) : d[i] = x THEN d ELSE Append(d, x)

\* mutant of NoSymbols: the extracted list is returned even when empty
NoSymbols_Never(s) == FALSE

\* `if not symbols:`
NoSymbols(s) == s = <<>>

\* lines 102-124: the list extracted from the response text
ExtractSymbols(text, n, defaults) ==
    LET found == SliceTo(DictFromKeys(SymbolsOfLines(SplitLines(Strip(text)))), n)
    IN  IF NoSymbols(found) THEN SliceTo(defaults, n) ELSE found

\* the lines an answer of the LLM is built from
DiscLinePool == {D_SCENARIO, D_PLAIN, D_MIXED, D_SINGLE, D_BASED, D_INVALID, <<>>}

DiscTexts ==
    {JoinLines(ls) : ls \in UNION {[1..n -> DiscLinePool] : n \in 1..MaxLines}}

InitDiscover ==
    /\ ParseIdle
    /\ BatchIdle
    /\ RestIdle
    /\ SaveIdle
    /\ IndIdle
    /\ FmtIdle
    /\ count \in Counts
    /\ default_stocks \in DefaultStocksValues
    /\ disc_response = <<>>
    /\ disc_raised = FALSE
    /\ symbols = <<>>
    /\ dpc = "call"

\* lines 83-99: the request returns a text
DiscoverResponds ==
    /\ dpc = "call"
    /\ \E text \in DiscTexts : disc_response' = text
    /\ dpc' = "extract"
    /\ UNCHANGED <<count, default_stocks, disc_raised, symbols, parseVars, batchVars, restVars, saveVars, indVars, fmtVars>>

\* lines 126-129: the request raises; `except Exception` returns the defaults
DiscoverRaises ==
    /\ dpc = "call"
    /\ disc_raised' = TRUE
    /\ symbols' = SliceTo(default_stocks, count)
    /\ dpc' = "done"
    /\ UNCHANGED <<count, default_stocks, disc_response, parseVars, batchVars, restVars, saveVars, indVars, fmtVars>>

\* lines 102-124: the symbols are extracted and returned
DiscoverExtract ==
    /\ dpc = "extract"
    /\ symbols' = ExtractSymbols(disc_response, count, default_stocks)
    /\ dpc' = "done"
    /\ UNCHANGED <<count, default_stocks, disc_response, disc_raised, parseVars, batchVars, restVars, saveVars, indVars, fmtVars>>

NextDiscover == DiscoverResponds \/ DiscoverRaises \/ DiscoverExtract

SpecDiscover == InitDiscover /\ [][NextDiscover]_vars

-----------------------------------------------------------------------------
(* SpecSave: main.save_binary_results, and the file read back.             *)

MaxResults == 4

J_NULL == <<"n","u","l","l">>
J_NAN == <<"N","a","N">>
J_INFINITY == <<"I","n","f","i","n","i","t","y">>
J_NEG_INFINITY == <<"-","I","n","f","i","n","i","t","y">>

\* the decimal digits of a natural number
RECURSIVE NatDigits(_)
NatDigits(n) ==
    IF n < 10 THEN <<Digits[n + 1]>>
    ELSE NatDigits(n \div 10) \o <<Digits[(n % 10) + 1]>>

\* the k decimal digits of n < 10^k, with leading zeros
RECURSIVE FracDigits(_, _)
FracDigits(n, k) ==
    IF k = 0 THEN <<>>
    ELSE FracDigits(n \div 10, k - 1) \o <<Digits[(n % 10) + 1]>>

\* the number of decimal places of a denominator 10^k
RECURSIVE Places(_)
Places(d) == IF d = 1 THEN 0 ELSE 1 + Places(d \div 10)

\* mutant of FloatRepr: the fraction is not written
FloatRepr_NoFraction(v) ==
    LET a == IF v.num < 0 THEN 0 - v.num ELSE v.num
    IN  (IF v.num < 0 THEN <<"-">> ELSE <<>>) \o NatDigits(a \div v.den)

\* float.__repr__ of a finite number, as json.dump writes it: the integer
\* part, a point and the decimals ('140.0' for a whole float; an int is
\* written without '.0' and reads back as the same number)
FloatRepr(v) ==
    LET a == IF v.num < 0 THEN 0 - v.num ELSE v.num
    IN  (IF v.num < 0 THEN <<"-">> ELSE <<>>)
        \o NatDigits(a \div v.den) \o <<".">>
        \o (IF v.den = 1 THEN <<"0">> ELSE FracDigits(a % v.den, Places(v.den)))

\* json.dump of None or a number (allow_nan is left True)
JsonNumber(v) ==
    IF v.kind = "none" THEN J_NULL
    ELSE IF v.kind = "nan" THEN J_NAN
    ELSE IF v.kind = "inf" THEN (IF v.neg THEN J_NEG_INFINITY ELSE J_INFINITY)
    ELSE FloatRepr(v)

\* json.load of null, NaN, Infinity, -Infinity or a number literal
JsonNumberValue(tok) ==
    IF tok = J_NULL THEN NoneV
    ELSE IF tok = J_NAN THEN NaN
    ELSE IF tok = J_INFINITY THEN Inf(FALSE)
    ELSE IF tok = J_NEG_INFINITY THEN Inf(TRUE)
    ELSE ParseFloat(tok).val

\* json.dump and json.load of a str of plain characters: quoted, unquoted
JsonString(str) == [quoted |-> str]
JsonStringValue(tok) == tok.quoted

\* one record of all_results as written
JsonResult(r) ==
    [symbol       |-> JsonString(r.symbol),
     decision     |-> JsonString(r.decision),
     confidence   |-> JsonNumber(r.confidence),
     target_price |-> JsonNumber(r.target_price),
     stop_loss    |-> JsonNumber(r.stop_loss)]

\* one record of all_results as read
JsonResultValue(j) ==
    [symbol       |-> JsonStringValue(j.symbol),
     decision     |-> JsonStringValue(j.decision),
     confidence   |-> JsonNumberValue(j.confidence),
     target_price |-> JsonNumberValue(j.target_price),
     stop_loss    |-> JsonNumberValue(j.stop_loss)]

\* output_data of save_binary_results, as json.dump writes it
JsonDump(rs) ==
    LET sm == SummaryOf(rs)
    IN  [called |-> TRUE,
         summary |->
            [total_analyzed |-> NatDigits(sm.total_analyzed),
             buy_signals    |-> NatDigits(sm.buy_signals),
             sell_signals   |-> NatDigits(sm.sell_signals),
             top_buy_picks  |->
                [k \in 1..Len(sm.top_buy_picks) |-> JsonString(sm.top_buy_picks[k])],
             top_sell_picks |->
                [k \in 1..Len(sm.top_sell_picks) |-> JsonString(sm.top_sell_picks[k])]],
         all_results |-> [k \in 1..Len(rs) |-> JsonResult(rs[k])]]

\* json.load of the document
JsonLoad(doc) ==
    [called |-> TRUE,
     summary |->
        [total_analyzed |-> DigitsVal(doc.summary.total_analyzed),
         buy_signals    |-> DigitsVal(doc.summary.buy_signals),
         sell_signals   |-> DigitsVal(doc.summary.sell_signals),
         top_buy_picks  |->
            [k \in 1..Len(doc.summary.top_buy_picks) |->
                JsonStringValue(doc.summary.top_buy_picks[k])],
         top_sell_picks |->
            [k \in 1..Len(doc.summary.top_sell_picks) |->
                JsonStringValue(doc.summary.top_sell_picks[k])]],
     all_results |->
        [k \in 1..Len(doc.all_results) |-> JsonResultValue(doc.all_results[k])]]

\* the symbols of a batch, by list position
BatchSymbols == <<"AAPL", "MSFT", "NVDA", "TSLA", "META", "AMZN">>

\* what the parser can leave in a result: a decision, a confidence within
\* [1, 10] and prices that are null, finite, nan or infinite
Outcomes ==
    {[decision |-> d, confidence |-> c.confidence,
      target_price |-> c.target_price, stop_loss |-> c.stop_loss] :
        d \in {"buy", "sell"},
        c \in {[confidence |-> IntV(DEFAULT_CONFIDENCE), target_price |-> NoneV,
                stop_loss |-> NoneV],
               [confidence |-> Fin(75, 10), target_price |-> Fin(1505, 10),
                stop_loss |-> IntV(140)],
               [confidence |-> IntV(CONF_MAX), target_price |-> NaN,
                stop_loss |-> Inf(FALSE)]}}

\* the lists save_binary_results is called with
ResultLists ==
    UNION {{[k \in 1..n |-> [symbol |-> BatchSymbols[k]] @@ o[k]] :
               o \in [1..n -> Outcomes]} : n \in 0..MaxResults}

InitSave ==
    /\ ParseIdle
    /\ BatchIdle
    /\ RestIdle
    /\ DiscIdle
    /\ IndIdle
    /\ FmtIdle
    /\ to_save \in ResultLists
    /\ file = [called |-> FALSE]
    /\ loaded = [called |-> FALSE]
    /\ spc = "save"

\* main.py 165-189: the document is built and written
SaveBinaryResults ==
    /\ spc = "save"
    /\ file' = JsonDump(to_save)
    /\ spc' = "saved"
    /\ UNCHANGED <<to_save, loaded, parseVars, batchVars, restVars, discVars, indVars, fmtVars>>

\* the file is read back with json.load
ReadBack ==
    /\ spc = "saved"
    /\ loaded' = JsonLoad(file)
    /\ spc' = "loaded"
    /\ UNCHANGED <<to_save, file, parseVars, batchVars, restVars, discVars, indVars, fmtVars>>

NextSave == SaveBinaryResults \/ ReadBack

SpecSave == InitSave /\ [][NextSave]_vars

-----------------------------------------------------------------------------
(* SpecIndicators: the indicators MarketDataFetcher.get_stock_data computes *)
(* from the price history.                                                  *)

MaxBars == 22

MaxTail == 3

RSI_WINDOW == 14

RSI_NEUTRAL == 50

MA_SHORT == 5

MA_LONG == 20

VOLUME_WINDOW == 20

\* closing prices and volumes of the bars
Prices == {10, 11}
Volumes == {0, 300}
Bars == [close : Prices, volume : Volumes]

\* the histories yfinance can return that are not empty: up to MaxBars bars,
\* a run of equal bars followed by up to MaxTail bars of any kind
Histories ==
    {h \in {[i \in 1..k |-> b] \o t :
               k \in 0..MaxBars, b \in Bars,
               t \in UNION {[1..n -> Bars] : n \in 0..MaxTail}} :
        Len(h) >= 1 /\ Len(h) <= MaxBars}

RECURSIVE Gcd(_, _)
Gcd(a, b) == IF b = 0 THEN a ELSE Gcd(b, a % b)

\* the float n / d, d # 0, in lowest terms with a positive denominator
Rat(n, d) ==
    LET an == IF n < 0 THEN 0 - n ELSE n
        ad == IF d < 0 THEN 0 - d ELSE d
        g  == Gcd(an, ad)
        sg == IF (n < 0) # (d < 0) THEN 0 - 1 ELSE 1
    IN  [kind |-> "fin", num |-> sg * (an \div g), den |-> ad \div g]

\* a + b on floats (the sums of the code never add opposite infinities)
FAdd(a, b) ==
    IF a.kind = "nan" \/ b.kind = "nan" THEN NaN
    ELSE IF a.kind = "inf" THEN a
    ELSE IF b.kind = "inf" THEN b
    ELSE Rat(a.num * b.den + b.num * a.den, a.den * b.den)

\* -a
FNeg(a) ==
    IF a.kind = "nan" THEN NaN
    ELSE IF a.kind = "inf" THEN Inf(~a.neg)
    ELSE Rat(0 - a.num, a.den)

\* a - b
FSub(a, b) == FAdd(a, FNeg(b))

\* a / b on float Series: no exception, x/0 is +-inf and 0/0 is nan
FDiv(a, b) ==
    IF a.kind = "nan" \/ b.kind = "nan" THEN NaN
    ELSE IF a.kind = "inf"
         THEN (IF b.kind = "inf" THEN NaN ELSE Inf(a.neg # (b.num < 0)))
    ELSE IF b.kind = "inf" THEN IntV(0)
    ELSE IF b.num = 0
         THEN (IF a.num = 0 THEN NaN ELSE Inf(a.num < 0))
    ELSE Rat(a.num * b.den, a.den * b.num)

\* hist['Close'].diff(): nan for the first bar
Delta(c, i) == IF i = 1 THEN NaN ELSE IntV(c[i] - c[i - 1])

\* delta.where(delta > 0, 0)
Gain(c, i) == IF NumLt(IntV(0), Delta(c, i)) THEN Delta(c, i) ELSE IntV(0)

\* -delta.where(delta < 0, 0)
Loss(c, i) == FNeg(IF NumLt(Delta(c, i), IntV(0)) THEN Delta(c, i) ELSE IntV(0))

\* one element of the series `gain` or `loss`, or of the series itself
Change(side, c, i) ==
    IF side = "gain" THEN Gain(c, i)
    ELSE IF side = "loss" THEN Loss(c, i)
    ELSE IntV(c[i])

RECURSIVE SumOver(_, _, _, _)
SumOver(side, c, from, to) ==
    IF from > to THEN IntV(0)
    ELSE FAdd(SumOver(side, c, from, to - 1), Change(side, c, to))

\* series.rolling(window=w).mean().iloc[-1]: nan with fewer than w bars
RollingMeanLast(side, c, w) ==
    IF Len(c) < w THEN NaN
    ELSE FDiv(SumOver(side, c, Len(c) - w + 1, Len(c)), IntV(w))

\* rs = gain / loss, last element
RS(c) == FDiv(RollingMeanLast("gain", c, RSI_WINDOW), RollingMeanLast("loss", c, RSI_WINDOW))

\* rsi = 100 - (100 / (1 + rs)).iloc[-1] if len(hist) >= 14 else 50
RSI(c) ==
    IF Len(c) >= RSI_WINDOW
    THEN FSub(IntV(100), FDiv(IntV(100), FAdd(IntV(1), RS(c))))
    ELSE IntV(RSI_NEUTRAL)

\* a * b on floats
FMul(a, b) ==
    IF a.kind = "nan" \/ b.kind = "nan" THEN NaN
    ELSE IF a.kind = "inf" \/ b.kind = "inf"
         THEN (IF (a.kind = "fin" /\ a.num = 0) \/ (b.kind = "fin" /\ b.num = 0) THEN NaN
               ELSE Inf((IF a.kind = "inf" THEN a.neg ELSE a.num < 0)
                        # (IF b.kind = "inf" THEN b.neg ELSE b.num < 0)))
    ELSE Rat(a.num * b.num, a.den * b.den)

\* hist['Close'].iloc[-1]
CurrentPrice(c) == IntV(c[Len(c)])

\* mutant of PrevClose: a one-bar series has no previous close
PrevClose_Unguarded(c) == IF Len(c) > 1 THEN IntV(c[Len(c) - 1]) ELSE NaN

\* hist['Close'].iloc[-2] if len(hist) > 1 else current_price
PrevClose(c) == IF Len(c) > 1 THEN IntV(c[Len(c) - 1]) ELSE CurrentPrice(c)

\* rolling(window=w).mean().iloc[-1] if len(hist) >= w else current_price
MovingAverage(c, w) ==
    IF Len(c) >= w THEN RollingMeanLast("value", c, w) ELSE CurrentPrice(c)

\* hist['Volume'].rolling(window=20).mean().iloc[-1] if len(hist) >= 20 else
\* hist['Volume'].iloc[-1]
AvgVolume(v) ==
    IF Len(v) >= VOLUME_WINDOW THEN RollingMeanLast("value", v, VOLUME_WINDOW)
    ELSE IntV(v[Len(v)])

\* mutant of VolumeRatio: the division is not guarded
VolumeRatio_Unguarded(v) == FDiv(IntV(v[Len(v)]), AvgVolume(v))

\* float(current_volume / avg_volume) if avg_volume > 0 else 1.0
VolumeRatio(v) ==
    IF NumLt(IntV(0), AvgVolume(v)) THEN FDiv(IntV(v[Len(v)]), AvgVolume(v))
    ELSE IntV(1)

\* the dict returned, lines 58-69
StockData(c, v) ==
    [current_price        |-> CurrentPrice(c),
     previous_close       |-> PrevClose(c),
     price_change         |-> FSub(CurrentPrice(c), PrevClose(c)),
     price_change_percent |->
        FMul(FDiv(FSub(CurrentPrice(c), PrevClose(c)), PrevClose(c)), IntV(100)),
     volume               |-> IntV(v[Len(v)]),
     avg_volume           |-> AvgVolume(v),
     volume_ratio         |-> VolumeRatio(v),
     ma_5                 |-> MovingAverage(c, MA_SHORT),
     ma_20                |-> MovingAverage(c, MA_LONG),
     rsi                  |-> RSI(c)]

InitIndicators ==
    /\ ParseIdle
    /\ BatchIdle
    /\ RestIdle
    /\ DiscIdle
    /\ SaveIdle
    /\ FmtIdle
    /\ \E h \in Histories :
          /\ closes = [i \in 1..Len(h) |-> h[i].close]
          /\ volumes = [i \in 1..Len(h) |-> h[i].volume]
    /\ rsi = NoneV
    /\ snapshot = NoneV
    /\ ipc = "fetched"

\* market_data.py 40-83: the snapshot is computed and returned
ReturnSnapshot ==
    /\ ipc = "fetched"
    /\ snapshot' = StockData(closes, volumes)
    /\ rsi' = RSI(closes)
    /\ ipc' = "returned"
    /\ UNCHANGED <<closes, volumes, parseVars, batchVars, restVars, discVars, saveVars, fmtVars>>

NextIndicators == ReturnSnapshot

SpecIndicators == InitIndicators /\ [][NextIndicators]_vars

-----------------------------------------------------------------------------
(* SpecFormat: MarketDataFetcher.format_stock_summary on the optional       *)
(* fundamentals of a snapshot.                                              *)

TOK_NA == <<"N","/","A">>
PY_NONE == <<"N","o","n","e">>
F_SECTOR == <<"T","e","c","h","n","o","l","o","g","y">>
F_INDUSTRY == <<"S","o","f","t","w","a","r","e">>

\* a key the dict does not hold
Absent == [kind |-> "absent"]

\* a str value of the dict
Str(chars) == [kind |-> "str", chars |-> chars]

\* d.get(key): None for a missing key
Get(v) == IF v = Absent THEN NoneV ELSE v

\* d.get(key, default)
GetOr(v, default) == IF v = Absent THEN default ELSE v

\* the truth value of None, a number or a str
Truthy(v) ==
    IF v.kind = "none" THEN FALSE
    ELSE IF v.kind = "fin" THEN v.num # 0
    ELSE IF v.kind = "str" THEN v.chars # <<>>
    ELSE TRUE

\* a or b
PyOr(a, b) == IF Truthy(a) THEN a ELSE b

\* f"{v}" of None or a str
PyStr(v) == IF v.kind = "none" THEN PY_NONE ELSE v.chars

\* f"{v:.2f}" of a number of at most two decimals
Fixed2(v) ==
    LET a == IF v.num < 0 THEN 0 - v.num ELSE v.num
        c == (a * 100) \div v.den
    IN  (IF v.num < 0 THEN <<"-">> ELSE <<>>)
        \o NatDigits(c \div 100) \o <<".">> \o FracDigits(c % 100, 2)

\* f"{n:,}" of a natural number
RECURSIVE Grouped(_)
Grouped(n) ==
    IF n < 1000 THEN NatDigits(n)
    ELSE Grouped(n \div 1000) \o <<",">> \o FracDigits(n % 1000, 3)

\* f"${v:.2f}" if v else 'N/A', with the prefix and suffix of the field
FixedOrNA(v, prefix, suffix) ==
    IF Truthy(v) THEN prefix \o Fixed2(v) \o suffix ELSE TOK_NA

\* lines 159-198: what the summary shows for each optional field
FormatStockSummary(d) ==
    [sector           |-> PyStr(GetOr(d.sector, Str(TOK_NA))),
     industry         |-> PyStr(GetOr(d.industry, Str(TOK_NA))),
     market_cap       |-> IF Truthy(Get(d.market_cap))
                          THEN <<"$">> \o Grouped(Get(d.market_cap).num) ELSE TOK_NA,
     pe_ratio         |-> FixedOrNA(Get(d.pe_ratio), <<>>, <<>>),
     beta             |-> FixedOrNA(Get(d.beta), <<>>, <<>>),
     analyst_target_price |-> FixedOrNA(Get(d.analyst_target_price), <<"$">>, <<>>),
     dividend_yield   |-> FixedOrNA(Get(d.dividend_yield), <<>>, <<"%">>),
     fifty_two_week_low  |->
        <<"$">> \o Fixed2(PyOr(GetOr(d.fifty_two_week_low, IntV(0)), IntV(0))),
     fifty_two_week_high |->
        <<"$">> \o Fixed2(PyOr(GetOr(d.fifty_two_week_high, IntV(0)), IntV(0)))]

\* each optional field: missing from the dict, None (what get_stock_data
\* stores when yfinance has no value), or a value
Missing == {Absent, NoneV}

Fundamentals ==
    [sector               : Missing \cup {Str(F_SECTOR)},
     industry             : Missing \cup {Str(F_INDUSTRY)},
     market_cap           : Missing \cup {IntV(2500000)},
     pe_ratio             : Missing \cup {Fin(155, 10)},
     beta                 : Missing \cup {Fin(12, 10)},
     analyst_target_price : Missing \cup {IntV(120)},
     dividend_yield       : Missing \cup {Fin(5, 10)},
     fifty_two_week_low   : Missing \cup {Fin(905, 10)},
     fifty_two_week_high  : Missing \cup {IntV(150)}]

InitFormat ==
    /\ ParseIdle
    /\ BatchIdle
    /\ RestIdle
    /\ DiscIdle
    /\ SaveIdle
    /\ IndIdle
    /\ fundamentals \in Fundamentals
    /\ summary_fields = NoneV
    /\ fpc = "format"

\* market_data.py 136-199: the summary is rendered and returned
FormatSummary ==
    /\ fpc = "format"
    /\ summary_fields' = FormatStockSummary(fundamentals)
    /\ fpc' = "formatted"
    /\ UNCHANGED <<fundamentals, parseVars, batchVars, restVars, discVars, saveVars, indVars>>

NextFormat == FormatSummary

SpecFormat == InitFormat /\ [][NextFormat]_vars

-----------------------------------------------------------------------------
(* Properties of _parse_binary_response (checked under SpecParse).         *)

Parsing == ppc \in {"loop", "done"}
Returned == ppc = "done"

\* a line has been processed by the loop, and LastLine is the latest one
Processed == Parsing /\ li > 1 /\ li - 1 <= Len(lines)
LastLine == lines[li - 1]

DecisionLines == {k \in 1..Len(lines) : Contains(lines[k], LBL_DECISION)}

\* the text after `label` on line k as the LLM wrote it (before upper()), stripped
WrittenValue(k, label) ==
    LET ul    == lines[k]
        ol    == SplitLines(response_text)[k]
        start == Find(ul, label) + Len(label)
        rest  == SubSeq(ul, start, Len(ul))
        stop  == IF Contains(rest, label) THEN start + Find(rest, label) - 2 ELSE Len(ul)
    IN  Strip(SubSeq(ol, start, stop))

\* C1: for every response text the parser's record has decision 'buy' or
\* 'sell', never null, hold or anything else.
C1_DecisionIsBuyOrSell == Parsing => result.decision \in {"buy", "sell"}

\* C1 witness: a returned record for a text with several DECISION: lines.
C1_Witness == Returned /\ Cardinality(DecisionLines) >= 2 /\ result.decision \in {"buy", "sell"}

\* C3 (as claimed): on a DECISION: line whose value holds both BUY and SELL,
\* the token occurring first decides.
C3_FirstTokenDecides ==
    (Processed /\ BranchOf(LastLine) = "decision") =>
        LET v == Strip(SplitSecond(LastLine, LBL_DECISION))
        IN  (Contains(v, TOK_BUY) /\ Contains(v, TOK_SELL)) =>
                result.decision = IF Find(v, TOK_BUY) < Find(v, TOK_SELL) THEN "buy" ELSE "sell"

\* C4: if no DECISION: line contains BUY or SELL (also when there is no
\* DECISION: line), the returned decision is 'sell'.
C4_DefaultsToSell ==
    (Returned /\ \A k \in DecisionLines :
                    ~Contains(lines[k], TOK_BUY) /\ ~Contains(lines[k], TOK_SELL))
        => result.decision = "sell"

\* C4 witness: a returned record for a text with a DECISION: line that names
\* neither token.
C4_Witness ==
    /\ Returned
    /\ DecisionLines # {}
    /\ \A k \in DecisionLines : ~Contains(lines[k], TOK_BUY) /\ ~Contains(lines[k], TOK_SELL)

\* C5 (as claimed): a CONFIDENCE: value that parses as a number is stored as
\* an integer-valued number in [1,10], clamped from below and above.
C5_ConfidenceIntegerInRange ==
    (Processed /\ BranchOf(LastLine) = "confidence" /\ ConfidenceValue(LastLine).exc = "none") =>
        LET src == ConfidenceValue(LastLine).val
        IN  /\ IsIntegerValued(result.confidence)
            /\ ~NumLt(result.confidence, IntV(CONF_MIN))
            /\ ~NumLt(IntV(CONF_MAX), result.confidence)
            /\ NumLt(src, IntV(CONF_MIN)) => result.confidence = IntV(CONF_MIN)
            /\ NumLt(IntV(CONF_MAX), src) => result.confidence = IntV(CONF_MAX)

\* C6 (as claimed): the scenario text parses to BUY / 10 / 150.5 / 140.0 /
\* 'strong earnings' / '2-3 days', and in general timeframe and the first 100
\* characters of catalyst are the text after the label as the LLM wrote it.
C6_FieldsAsWritten ==
    /\ (Returned /\ response_text = ScenarioText) =>
            /\ result.decision = "buy"
            /\ result.confidence = IntV(CONF_MAX)
            /\ result.target_price = Fin(1505, 10)
            /\ result.stop_loss = IntV(140)
            /\ result.catalyst = V_earnings
            /\ result.timeframe = V_days
    /\ (Processed /\ BranchOf(LastLine) = "timeframe") =>
            result.timeframe = WrittenValue(li - 1, LBL_TIMEFRAME)
    /\ (Processed /\ BranchOf(LastLine) = "catalyst") =>
            result.catalyst = Truncate(WrittenValue(li - 1, LBL_CATALYST), CATALYST_MAX)

\* the CONFIDENCE: lines among the first n whose value the parser stored
StoredConfidenceLines(n) ==
    {k \in 1..n : BranchOf(lines[k]) = "confidence" /\ ConfidenceValue(lines[k]).exc = "none"}

\* C7: the parser never raises and returns a record for every text; a
\* CONFIDENCE: line with a missing or non-numeric value leaves confidence as
\* it was (5 if never set) and the loop still runs over every remaining line.
C7_NeverRaises ==
    /\ escaped = "none"
    /\ Returned => (li = Len(lines) + 1 /\ result # NotStarted)
    /\ (Processed /\ Contains(LastLine, LBL_CONFIDENCE) /\ ConfidenceValue(LastLine).exc # "none")
            => result.confidence = prev_result.confidence
    /\ (Parsing /\ StoredConfidenceLines(li - 1) = {})
            => result.confidence = IntV(DEFAULT_CONFIDENCE)

\* C7 witness: a returned record where a CONFIDENCE: line without a numeric
\* value was followed by a TARGET: line that was parsed.
C7_Witness ==
    /\ Returned
    /\ \E k \in 1..(Len(lines) - 1) :
          /\ BranchOf(lines[k]) = "confidence"
          /\ ConfidenceValue(lines[k]).exc # "none"
          /\ BranchOf(lines[k + 1]) = "target"
          /\ result.target_price # NoneV

\* a TARGET: (STOP LOSS:) line whose value is no price
BadPriceLine(line, label) == Contains(line, label) /\ PriceValue(line, label).exc # "none"

\* a line whose price the parser stored in the field of `branch`
SetsPrice(line, branch, label) == BranchOf(line) = branch /\ PriceValue(line, label).exc = "none"

\* C8 (as claimed): after a TARGET: / STOP LOSS: line whose value is no price,
\* the field is null.
C8_BadPriceLeavesNull ==
    /\ (Processed /\ BadPriceLine(LastLine, LBL_TARGET)) => result.target_price = NoneV
    /\ (Processed /\ BadPriceLine(LastLine, LBL_STOP_LOSS)) => result.stop_loss = NoneV

\* C8 (amended): after such a line the field keeps the value it had before the
\* line: null only if no earlier line set it.
C8_BadPriceKeepsPrevious ==
    /\ (Processed /\ BadPriceLine(LastLine, LBL_TARGET)) =>
            /\ result.target_price = prev_result.target_price
            /\ (\A k \in 1..(li - 2) : ~SetsPrice(lines[k], "target", LBL_TARGET)) => result.target_price = NoneV
    /\ (Processed /\ BadPriceLine(LastLine, LBL_STOP_LOSS)) =>
            /\ result.stop_loss = prev_result.stop_loss
            /\ (\A k \in 1..(li - 2) : ~SetsPrice(lines[k], "stop_loss", LBL_STOP_LOSS)) => result.stop_loss = NoneV

\* C8 witness: a TARGET: line that is no price processed after one that set
\* the target.
C8_Witness ==
    /\ Processed
    /\ BadPriceLine(LastLine, LBL_TARGET)
    /\ prev_result.target_price # NoneV
    /\ result.target_price = prev_result.target_price

-----------------------------------------------------------------------------
(* Properties of the batch (checked under Spec).                           *)

Failures == {"nodata", "llm_error"}
Interrupted == \E k \in 1..Len(env) : env[k] = "interrupt"
OkPositions == {k \in 1..Len(env) : env[k] = "ok"}
\* the loop of a batch that was started has ended
LoopOver == api_key /\ pc \in {"summary", "end"} /\ stocks # <<>>

\* C2: a symbol whose fetch returns nothing or whose LLM call raises gets an
\* error entry of its own and nothing else changes: no result is collected for
\* it, the loop goes on to the next symbol, and without an interrupt the batch
\* ends normally with every symbol of the list analysed.
C2_FailureIsolated ==
    /\ \A k \in 1..Len(env) :
          env[k] \in Failures =>
              /\ k <= Len(printed)
              /\ printed[k].kind = "error"
              /\ printed[k].symbol = stocks[k]
              /\ printed[k].error[2] = stocks[k]
    /\ \A k \in 1..Len(printed) : printed[k].kind = "error" => env[k] \in Failures
    /\ (LoopOver /\ ~Interrupted) => (Len(env) = Len(stocks) /\ exit_code # 1)
    /\ (api_key /\ ~Interrupted) => (pc = "end" => exit_code = 0) /\ (pc # "end" => ENABLED Next)

\* C2 witness: a finished batch in which a failed symbol was followed by an
\* analysed one.
C2_Witness ==
    /\ pc = "end"
    /\ exit_code = 0
    /\ \E k \in 1..(Len(env) - 1) : env[k] \in Failures /\ env[k + 1] = "ok"
    /\ \E k \in 1..Len(env) : env[k] = "llm_error"
    /\ \E k \in 1..Len(env) : env[k] = "nodata"

\* C9: the list handed to display_binary_summary and save_binary_results holds
\* no error entry, so total_analyzed and the buy / sell counts cover the
\* analysed symbols only.
C9_NoErrorEntryInResults ==
    /\ \A k \in 1..Len(results) : ~HasError(results[k])
    /\ shown.called =>
          /\ \A k \in 1..Len(shown.list) : ~HasError(shown.list[k])
          /\ Len(shown.list) = Cardinality(OkPositions)
    /\ saved.called =>
          /\ \A k \in 1..Len(saved.all_results) : ~HasError(saved.all_results[k])
          /\ saved.summary.total_analyzed = Cardinality(OkPositions)
          /\ saved.summary.buy_signals + saved.summary.sell_signals = Cardinality(OkPositions)

\* C9 witness: a summary shown and saved for a batch with a failed and an
\* analysed symbol.
C9_Witness ==
    /\ shown.called
    /\ saved.called
    /\ \E k \in 1..Len(env) : env[k] \in Failures
    /\ OkPositions # {}

StageRank(op) ==
    CASE op = "discover" -> 0 [] op = "fetch" -> 1 [] op = "prompt" -> 2
      [] op = "llm" -> 3 [] op = "parse" -> 4

\* the symbols of the positions analysed so far, in list order
RECURSIVE OkSymbols(_)
OkSymbols(n) ==
    IF n = 0 THEN <<>>
    ELSE IF env[n] = "ok" THEN Append(OkSymbols(n - 1), stocks[n])
    ELSE OkSymbols(n - 1)

\* C10: symbols are processed one at a time in list order: in the sequence of
\* external steps, every step for position i comes before every step for
\* position i+1 and the steps of one position run fetch, prompt, LLM call,
\* parse; the collected results are in list order.
C10_SequentialInOrder ==
    /\ \A a, b \in 1..Len(calls) :
          a < b => \/ calls[a].i < calls[b].i
                   \/ calls[a].i = calls[b].i /\ StageRank(calls[a].op) < StageRank(calls[b].op)
    /\ \A a \in 1..Len(calls) : calls[a].op # "discover" => calls[a].i <= idx
    /\ [k \in 1..Len(results) |-> results[k].symbol] = OkSymbols(Len(env))

\* C10 witness: a batch that collected results for two different symbols.
C10_Witness ==
    /\ pc = "end"
    /\ Len(results) >= 2
    /\ results[1].symbol # results[2].symbol

\* the number of calls of one kind issued for list position k
CountCalls(op, k) ==
    Cardinality({j \in 1..Len(calls) : calls[j].op = op /\ calls[j].i = k})

\* the positions whose fetch gave no snapshot
NoDataPositions == {k \in 1..Len(env) : env[k] = "nodata"}

\* C11: when the market-data fetch for a symbol yields an empty series or
\* fails, get_stock_data returns None without raising: the batch goes on, the
\* symbol gets the error entry "Could not fetch data for <symbol>", and no
\* prompt is built and no LLM request is issued for it; an LLM request is
\* only ever about to be issued for a fetched snapshot.
C11_NoDataNoLLMRequest ==
    /\ \A hist \in FetchOutcomes \ {"bars"} :
          \A sym \in Symbols : GetStockData(sym, hist) = NoneV
    /\ pc = "llm" => stock_data # NoneV
    /\ \A k \in NoDataPositions :
          /\ printed[k] = [symbol |-> stocks[k], kind |-> "error",
                           error |-> <<"Could not fetch data for", stocks[k]>>]
          /\ CountCalls("fetch", k) = 1
          /\ CountCalls("prompt", k) = 0
          /\ CountCalls("llm", k) = 0
          /\ CountCalls("parse", k) = 0

\* C11 witness: a finished batch in which one symbol had no data and a later
\* one was analysed.
C11_Witness ==
    /\ pc = "end"
    /\ exit_code = 0
    /\ \E k \in NoDataPositions : \E j \in OkPositions : k < j

\* C12: without the credential the construction of StockAnalyzer raises
\* before anything else happens: no discovery, no market-data fetch and no
\* LLM request is ever issued, nothing is shown or saved, and the run ends
\* with exit status 1.
C12_NoCredentialNoCalls ==
    ~api_key =>
        /\ calls = <<>>
        /\ env = <<>>
        /\ results = <<>>
        /\ ~shown.called
        /\ ~saved.called
        /\ pc \in {"construct", "end"}
        /\ pc = "end" => exit_code = 1

\* C12 witness: a run without the credential has ended.
C12_Witness == ~api_key /\ pc = "end" /\ exit_code = 1

\* an interrupt arrived while step `at` of position k was running
InterruptedAt(k, at) == \E n \in 1..Len(interrupts) : interrupts[n] = Signal(k, at)

\* C13: analysing one symbol issues at most one LLM request and at most one
\* data fetch; once the analysis of a position is over it has issued exactly
\* one fetch, and exactly one LLM request when the data was fetched (none
\* otherwise): neither a failed fetch nor a failed LLM call is retried.
C13_AtMostOneRequest ==
    \A k \in 1..Len(stocks) :
        /\ CountCalls("llm", k) <= 1
        /\ CountCalls("fetch", k) <= 1
        /\ k <= Len(env) =>
              /\ CountCalls("fetch", k) = 1
              /\ CountCalls("llm", k) = IF env[k] = "nodata" \/ InterruptedAt(k, "fetch")
                                        THEN 0 ELSE 1

\* C13 witness: a finished batch with a failed fetch, a failed LLM call and
\* an analysed symbol.
C13_Witness ==
    /\ pc = "end"
    /\ \E k \in 1..Len(env) : env[k] = "nodata"
    /\ \E k \in 1..Len(env) : env[k] = "llm_error" /\ CountCalls("llm", k) = 1
    /\ OkPositions # {}

\* the texts the LLM returned, in the order they were parsed
ReturnedTexts ==
    LET p == SelectSeq(calls, LAMBDA c : c.op = "parse")
    IN  [k \in 1..Len(p) |-> p[k].text]

\* C19: every successful analysis result carries raw_response equal to the
\* text the LLM returned, unmodified, whatever the parser extracted or
\* defaulted; the same holds for the results shown and saved.
C19_RawResponseUnmodified ==
    /\ [k \in 1..Len(results) |-> results[k].raw_response] = ReturnedTexts
    /\ shown.called =>
          [k \in 1..Len(shown.list) |-> shown.list[k].raw_response] = ReturnedTexts
    /\ saved.called =>
          [k \in 1..Len(saved.all_results) |-> saved.all_results[k].raw_response]
              = ReturnedTexts

\* C19 witness: saved results with an empty response (every field defaulted)
\* and a lower-case response whose prices were defaulted.
C19_Witness ==
    /\ saved.called
    /\ \E k \in 1..Len(results) : results[k].raw_response = <<>>
    /\ \E k \in 1..Len(results) :
          /\ results[k].raw_response # Upper(results[k].raw_response)
          /\ results[k].target_price = NoneV

\* find_top_short_term_stocks has returned
Discovered == dpc = "done"

NoRepeats(s) == \A a, b \in 1..Len(s) : a # b => s[a] # s[b]

\* C14: for every response text and every requested count,
\* find_top_short_term_stocks returns a list that contains no symbol twice and
\* has at most count elements, also when it falls back to the default list.
C14_DistinctAtMostCount ==
    Discovered => NoRepeats(symbols) /\ Len(symbols) <= count

\* the stripped, uppercased comma-separated tokens of the lines of the
\* stripped response that hold a comma and start with neither 'Based on' nor
\* 'Here are', in reading order
RECURSIVE Candidates(_)
Candidates(ls) ==
    IF ls = <<>> THEN <<>>
    ELSE (IF LineHasSymbols(Head(ls)) THEN PotentialSymbols(Head(ls)) ELSE <<>>)
         \o Candidates(Tail(ls))

\* the positions in c of the first occurrences of the valid symbols
FirstSeen(c) ==
    {i \in 1..Len(c) : ValidSymbol(c[i]) /\ \A j \in 1..(i - 1) : c[j] # c[i]}

\* the first n entries of a list
FirstN(s, n) == SubSeq(s, 1, IF n < Len(s) THEN n ELSE Len(s))

\* the comma-separated tokens of the whole response, stripped
ResponseTokens(text) ==
    LET parts == SplitOn(text, ",")
    IN  [i \in 1..Len(parts) |-> Strip(parts[i])]

\* s lists the entries of c at the first n positions of F, in position order
ListsFirst(s, c, F, n) ==
    /\ Len(s) = n
    /\ \A k \in 1..n :
          \E i \in F : Cardinality({j \in F : j <= i}) = k /\ s[k] = c[i]

\* C15 as claimed: discovery returns the first count distinct comma-separated
\* tokens of the response that are purely alphabetic and 1 to 5 characters
\* long, in first-seen order; for 'Here are some picks: AAPL,MSFT,GOOGL' with
\* count=2 it returns [AAPL, MSFT].
C15_FirstCountTokens ==
    (Discovered /\ ~disc_raised /\ count >= 0) =>
        /\ LET c == ResponseTokens(disc_response)
               F == FirstSeen(c)
           IN  ListsFirst(symbols, c, F, IF count < Cardinality(F) THEN count ELSE Cardinality(F))
        /\ (disc_response = D_SCENARIO /\ count = 2) => symbols = <<S_AAPL, S_MSFT>>

\* C15, amended: the tokens come only from the lines of the stripped response
\* that contain a comma and start with neither 'Based on' nor 'Here are', and
\* are stripped and uppercased before they are tested; for count >= 0 the
\* first count distinct valid ones are returned in first-seen order, and when
\* that leaves none the first count entries of the default list; for 'Here
\* are some picks: AAPL,MSFT,GOOGL' with count=2 the line is skipped and the
\* first two default symbols are returned.
C15_FirstCountOfEligibleLines ==
    (Discovered /\ ~disc_raised /\ count >= 0) =>
        /\ LET c == Candidates(SplitLines(Strip(disc_response)))
               F == FirstSeen(c)
               n == IF count < Cardinality(F) THEN count ELSE Cardinality(F)
           IN  IF n = 0 THEN symbols = FirstN(default_stocks, count)
               ELSE ListsFirst(symbols, c, F, n)
        /\ (disc_response = D_SCENARIO /\ count = 2) =>
              symbols = FirstN(default_stocks, 2)

\* C15 witness: a response with lower-case and repeated tokens on a second
\* line, cut to three symbols.
C15_Witness ==
    /\ Discovered
    /\ disc_response = JoinLines(<<D_PLAIN, D_MIXED>>)
    /\ count = 3
    /\ symbols = <<S_AAPL, S_MSFT, S_GOOGL>>

\* C16: if no valid symbol survives extraction, or the discovery request
\* raises, find_top_short_term_stocks returns the first count entries of the
\* configured default list (count >= 0), neither an empty list nor an
\* exception.
C16_FallsBackToDefaults ==
    (/\ Discovered
     /\ count >= 0
     /\ \/ disc_raised
        \/ FirstSeen(Candidates(SplitLines(Strip(disc_response)))) = {})
    => /\ symbols = FirstN(default_stocks, count)
       /\ count > 0 => symbols # <<>>

\* C16 witness: a response without any valid symbol, answered with the first
\* two default symbols.
C16_Witness ==
    /\ Discovered
    /\ ~disc_raised
    /\ disc_response = JoinLines(<<D_SINGLE, D_BASED>>)
    /\ count = 2
    /\ symbols = <<default_stocks[1], default_stocks[2]>>

\* the positions of the results with decision d
Positions(rs, d) == {k \in 1..Len(rs) : DecisionIs(rs[k], d)}

\* picks lists at most three symbols, each the symbol of its own result with
\* decision d (at[k] is the position of the k-th pick), in non-increasing
\* order of confidence, and no result with decision d that is left out has a
\* higher confidence than a listed one; with three or fewer such results all
\* of them are listed
PicksAreTop(picks, rs, d) ==
    /\ Len(picks) <= 3
    /\ Len(picks) = IF Cardinality(Positions(rs, d)) < 3
                    THEN Cardinality(Positions(rs, d)) ELSE 3
    /\ \E at \in [1..Len(picks) -> Positions(rs, d)] :
          /\ \A a, b \in 1..Len(picks) : a # b => at[a] # at[b]
          /\ \A k \in 1..Len(picks) : picks[k] = rs[at[k]].symbol
          /\ \A a, b \in 1..Len(picks) :
                a < b => ~NumLt(rs[at[a]].confidence, rs[at[b]].confidence)
          /\ \A out \in Positions(rs, d) \ {at[k] : k \in 1..Len(picks)} :
                \A k \in 1..Len(picks) :
                    ~NumLt(rs[at[k]].confidence, rs[out].confidence)

\* C17: in the saved summary top_buy_picks (resp. top_sell_picks) lists at
\* most 3 symbols, all taken from BUY (resp. SELL) results, in non-increasing
\* order of confidence, and no BUY (resp. SELL) result left out has a higher
\* confidence than a listed one.
C17_TopPicksAreTop ==
    file.called =>
        /\ PicksAreTop([k \in 1..Len(file.summary.top_buy_picks) |->
                           file.summary.top_buy_picks[k].quoted], to_save, "buy")
        /\ PicksAreTop([k \in 1..Len(file.summary.top_sell_picks) |->
                           file.summary.top_sell_picks[k].quoted], to_save, "sell")

\* C17 witness: four BUY results whose confidences are out of order; three
\* are listed and the one left out has the lowest confidence.
C17_Witness ==
    /\ file.called
    /\ Cardinality(Positions(to_save, "buy")) = 4
    /\ NumLt(to_save[1].confidence, to_save[2].confidence)
    /\ NumLt(to_save[1].confidence, to_save[3].confidence)
    /\ NumLt(to_save[1].confidence, to_save[4].confidence)
    /\ Len(file.summary.top_buy_picks) = 3
    /\ \A k \in 1..3 : file.summary.top_buy_picks[k].quoted # to_save[1].symbol

\* C18: writing a batch of results with save_binary_results and reading the
\* JSON file back yields, for every record of all_results, the same decision,
\* confidence, target_price and stop_loss as before saving; a null stays
\* null.
C18_RoundTrip ==
    loaded.called =>
        /\ Len(loaded.all_results) = Len(to_save)
        /\ \A k \in 1..Len(to_save) :
              /\ loaded.all_results[k].decision = to_save[k].decision
              /\ loaded.all_results[k].confidence = to_save[k].confidence
              /\ loaded.all_results[k].target_price = to_save[k].target_price
              /\ loaded.all_results[k].stop_loss = to_save[k].stop_loss
              /\ to_save[k].target_price = NoneV => file.all_results[k].target_price = J_NULL

\* C18 witness: a file read back that holds a null price, a fractional
\* confidence and a fractional price.
C18_Witness ==
    /\ loaded.called
    /\ \E k \in 1..Len(to_save) :
          to_save[k].target_price = NoneV /\ loaded.all_results[k].stop_loss = NoneV
    /\ \E k \in 1..Len(to_save) :
          /\ to_save[k].confidence = Fin(75, 10)
          /\ loaded.all_results[k].target_price = Fin(1505, 10)

\* no bar of the RSI window closed below the bar before it
NoLossInWindow(c) ==
    \A i \in (Len(c) - 13)..Len(c) : i > 1 => c[i] >= c[i - 1]

\* C20: the rsi returned by get_stock_data is always within [0, 100]: with
\* fewer than 14 bars it is 50, and with at least 14 bars and a zero average
\* loss over the window (a constant-price series included) it is 100.
C20_RsiInRange ==
    ipc = "returned" =>
        /\ rsi.kind = "fin"
        /\ ~NumLt(rsi, IntV(0))
        /\ ~NumLt(IntV(100), rsi)
        /\ Len(closes) < 14 => rsi = IntV(50)
        /\ (Len(closes) >= 14 /\ NoLossInWindow(closes)) => rsi = IntV(100)

\* get_stock_data has returned its snapshot
SnapshotReturned == ipc = "returned"

\* C21: for a price series of exactly one bar with a positive close,
\* get_stock_data yields previous_close = current_price = that close,
\* price_change_percent = 0, ma_5 = ma_20 = current_price, rsi = 50 and
\* volume_ratio = 1.0.
C21_OneBarSnapshot ==
    (SnapshotReturned /\ Len(closes) = 1 /\ closes[1] > 0) =>
        /\ snapshot.current_price = IntV(closes[1])
        /\ snapshot.previous_close = IntV(closes[1])
        /\ snapshot.price_change_percent = IntV(0)
        /\ snapshot.ma_5 = IntV(closes[1])
        /\ snapshot.ma_20 = IntV(closes[1])
        /\ snapshot.rsi = IntV(50)
        /\ snapshot.volume_ratio = IntV(1)

\* C21 witness: the snapshot of a single bar that traded.
C21_Witness ==
    /\ SnapshotReturned
    /\ Len(closes) = 1
    /\ volumes[1] > 0
    /\ snapshot.current_price = IntV(10)

\* the sum of the last n entries of a series of integers
RECURSIVE TailSum(_, _)
TailSum(v, n) ==
    IF n = 0 \/ v = <<>> THEN 0
    ELSE v[Len(v)] + TailSum(SubSeq(v, 1, Len(v) - 1), n - 1)

\* the average volume is 0: over the last 20 bars when there are as many,
\* otherwise the volume of the last bar
ZeroAverageVolume(v) ==
    IF Len(v) >= 20 THEN TailSum(v, 20) = 0 ELSE v[Len(v)] = 0

\* C22: for every price series with non-negative volumes the volume_ratio of
\* the snapshot is >= 0, and it is exactly 1.0 whenever the average volume is
\* 0.
C22_VolumeRatioNonNegative ==
    (SnapshotReturned /\ \A i \in 1..Len(volumes) : volumes[i] >= 0) =>
        /\ snapshot.volume_ratio.kind = "fin"
        /\ ~NumLt(snapshot.volume_ratio, IntV(0))
        /\ ZeroAverageVolume(volumes) => snapshot.volume_ratio = IntV(1)

\* C22 witness: a history of at least 20 bars whose window never traded; the
\* ratio returned is 1.
C22_Witness ==
    /\ SnapshotReturned
    /\ Len(volumes) >= 20
    /\ ZeroAverageVolume(volumes)
    /\ snapshot.avg_volume = IntV(0)
    /\ snapshot.volume_ratio = IntV(1)

OptionalFields ==
    {"sector", "industry", "market_cap", "pe_ratio", "beta",
     "fifty_two_week_high", "fifty_two_week_low", "analyst_target_price",
     "dividend_yield"}

\* C23: format_stock_summary never raises for a snapshot whose optional
\* fundamentals (sector, industry, market cap, P/E, beta, 52-week high and
\* low, analyst target, dividend yield) are absent or null, and it renders
\* every such missing field as the literal token N/A.
C23_MissingFieldsAsNA ==
    fpc = "formatted" =>
        \A f \in OptionalFields :
            fundamentals[f] \in Missing => summary_fields[f] = <<"N", "/", "A">>

\* the run has ended without a fatal error
Completed == pc = "end" /\ exit_code = 0

\* C24: with --output PATH, a CLI run that completes its analysis without a
\* fatal error writes the JSON results object to PATH, in each of the
\* --single, --stocks and discovery (--count) modes.
C24_OutputWritten ==
    (Completed /\ output) => saved.called

\* the latest position for which a call was issued (0 when there is none)
LastCalled ==
    IF \A a \in 1..Len(calls) : calls[a].op = "discover" THEN 0
    ELSE CHOOSE i \in 1..MaxStocks :
            /\ \E a \in 1..Len(calls) : calls[a].i = i
            /\ \A a \in 1..Len(calls) : calls[a].i <= i

\* C25: an interrupt arriving while a symbol of the batch is fetched, sent
\* to the LLM or parsed ends the batch there: the process has exited with
\* status 1, no call was issued for a later position, no result was collected
\* for the interrupted position, and neither a summary nor a file was produced.
C25_InterruptAbortsBatch ==
    \A n \in 1..Len(interrupts) :
        /\ pc = "end"
        /\ exit_code = 1
        /\ LastCalled = interrupts[n].i
        /\ Len(env) = interrupts[n].i /\ env[Len(env)] = "interrupt"
        /\ ~shown.called
        /\ ~saved.called

\* the part of C25 the code keeps: an interrupt during the fetch, during the
\* LLM call, or during a line of the parse outside the bare `except:` blocks
C25_UncaughtInterruptAborts ==
    Interrupted =>
        /\ pc = "end"
        /\ exit_code = 1
        /\ LastCalled = Len(env)
        /\ ~shown.called
        /\ ~saved.called

-----------------------------------------------------------------------------
(* SpecInteractive: run_interactive_mode (main.py 192-269).                *)

\* str.lower() on one character
LowerChar(c) ==
    IF \E i \in 1..Len(UpperChars) : UpperChars[i] = c
    THEN LowerChars[CHOOSE i \in 1..Len(UpperChars) : UpperChars[i] = c]
    ELSE c

\* str.lower()
Lower(s) == [i \in 1..Len(s) |-> LowerChar(s[i])]

CMD_QUIT == <<"q","u","i","t">>
CMD_EXIT == <<"e","x","i","t">>
CMD_Q == <<"q">>
CMD_HELP == <<"h","e","l","p">>
CMD_SCAN == <<"s","c","a","n">>
IN_QUIT_PADDED == <<" ","Q","U","I","T"," ">>
IN_EXIT_MIXED == <<"E","x","i","t">>
IN_HELP_UPPER == <<"H","E","L","P">>
IN_BLANK == <<" "," ">>
IN_QUITS == <<"q","u","i","t","s">>
IN_ONE == <<"a","a","p","l">>
IN_TWO == <<"A","A","P","L",","," ","m","s","f","t">>

\* the number of lines read at the prompt in one run
MaxTurns == 4

\* the lines typed at the prompt
InputLines ==
    {CMD_QUIT, CMD_EXIT, CMD_Q, CMD_HELP, CMD_SCAN, IN_QUIT_PADDED, IN_EXIT_MIXED,
     IN_HELP_UPPER, IN_BLANK, <<>>, IN_QUITS, IN_ONE, IN_TWO}

\* ['quit', 'exit', 'q']
QuitWords == {CMD_QUIT, CMD_EXIT, CMD_Q}

\* the branch of the if / elif chain that takes the stripped line
Command(line) ==
    IF Lower(line) \in QuitWords THEN "quit"
    ELSE IF Lower(line) = CMD_HELP THEN "help"
    ELSE IF Lower(line) = CMD_SCAN THEN "scan"
    ELSE IF line = <<>> THEN "empty"
    ELSE "symbols"

\* mutant of LoopHandler: every exception leaves the loop
LoopHandler_Break(exc) == "break"

\* main.py 265-269: `except KeyboardInterrupt: ... break`, then
\* `except Exception as e: print(...)`, after which the loop goes round
LoopHandler(exc) == IF exc = "KeyboardInterrupt" THEN "break" ELSE "continue"

\* the exceptions a step of the loop body can end with ("none": it returns)
StepOutcomes == {"none", "KeyboardInterrupt", "EOFError", "RuntimeError"}

\* the pass of the loop ends with exc
Handled(exc) ==
    /\ lpc' = IF LoopHandler(exc) = "break" THEN "ended" ELSE "prompt"
    /\ turn_outcome' = IF exc = "KeyboardInterrupt" THEN "interrupt" ELSE "exception"

InitInteractive ==
    /\ ParseIdle
    /\ BatchIdle
    /\ DiscIdle /\ SaveIdle /\ IndIdle /\ FmtIdle
    /\ ExtIdle /\ MultiIdle /\ StatIdle
    /\ user_input = NoLine
    /\ turn_outcome = "none"
    /\ turns = 0
    /\ lpc = "start"

\* main.py 194: StockAnalyzer() is built before the loop, outside its try
StartInteractive ==
    /\ lpc = "start"
    /\ \E key \in BOOLEAN :
          lpc' = IF ValidateConfig(key) = "none" THEN "prompt" ELSE "failed"
    /\ UNCHANGED <<user_input, turn_outcome, turns>>
    /\ UNCHANGED <<parseVars, batchVars, discVars, saveVars, indVars, fmtVars, extVars, multiVars, statVars>>

\* main.py 203-224: a line is read at the prompt and dispatched
ReadLine ==
    /\ lpc = "prompt"
    /\ turns < MaxTurns
    /\ \E raw \in InputLines :
          /\ user_input' = Strip(raw)
          /\ turns' = turns + 1
          /\ CASE Command(Strip(raw)) = "quit"  -> lpc' = "ended" /\ turn_outcome' = "quit"
               [] Command(Strip(raw)) = "help"  -> lpc' = "prompt" /\ turn_outcome' = "help"
               [] Command(Strip(raw)) = "scan"  -> lpc' = "count" /\ turn_outcome' = "pending"
               [] Command(Strip(raw)) = "empty" -> lpc' = "prompt" /\ turn_outcome' = "empty"
               [] OTHER                         -> lpc' = "analyse" /\ turn_outcome' = "pending"
    /\ UNCHANGED <<parseVars, batchVars, discVars, saveVars, indVars, fmtVars, extVars, multiVars, statVars>>

\* main.py 203, 265-269: input() raises (Ctrl-C, or end of input)
ReadRaises ==
    /\ lpc = "prompt"
    /\ turns < MaxTurns
    /\ \E exc \in {"KeyboardInterrupt", "EOFError"} : Handled(exc)
    /\ turns' = turns + 1
    /\ UNCHANGED user_input
    /\ UNCHANGED <<parseVars, batchVars, discVars, saveVars, indVars, fmtVars, extVars, multiVars, statVars>>

\* main.py 211-223: the scan command: the count is read (a text that is no
\* number gives 5), the scan runs, its summary is shown
Scan ==
    /\ lpc = "count"
    /\ \E exc \in StepOutcomes :
          IF exc = "none"
          THEN lpc' = "prompt" /\ turn_outcome' = "scan"
          ELSE Handled(exc)
    /\ UNCHANGED <<user_input, turns>>
    /\ UNCHANGED <<parseVars, batchVars, discVars, saveVars, indVars, fmtVars, extVars, multiVars, statVars>>

\* main.py 226-263: the symbols entered are analysed and shown
Analyse ==
    /\ lpc = "analyse"
    /\ \E exc \in StepOutcomes \ {"EOFError"} :
          IF exc = "none"
          THEN lpc' = "prompt" /\ turn_outcome' = "analysed"
          ELSE Handled(exc)
    /\ UNCHANGED <<user_input, turns>>
    /\ UNCHANGED <<parseVars, batchVars, discVars, saveVars, indVars, fmtVars, extVars, multiVars, statVars>>

NextInteractive == StartInteractive \/ ReadLine \/ ReadRaises \/ Scan \/ Analyse

SpecInteractive == InitInteractive /\ [][NextInteractive]_vars

\* the loop was left
LoopEnded == lpc = "ended"

\* C26: the interactive loop is left only after the input quit, exit or q
\* (in any letter case, surrounding blanks ignored) or by an interrupt; after
\* help, after a scan, after an empty line and after any other exception
\* raised during a pass the loop is back at the prompt.
C26_LoopEndsOnlyOnQuitOrInterrupt ==
    /\ LoopEnded =>
          \/ turn_outcome = "interrupt"
          \/ user_input # NoLine /\ Lower(user_input) \in QuitWords
    /\ (turn_outcome # "interrupt" /\ user_input # NoLine
          /\ (Lower(user_input) \in {CMD_HELP, CMD_SCAN} \/ user_input = <<>>))
       => lpc \in {"prompt", "count"}
    /\ turn_outcome \in {"help", "scan", "empty", "analysed", "exception"} => lpc = "prompt"

\* C26 witness: an exception raised while the entered symbols were analysed
\* left the loop at the prompt, on the last line the bound allows.
C26_Witness ==
    /\ lpc = "prompt"
    /\ turn_outcome = "exception"
    /\ Command(user_input) = "symbols"
    /\ turns = MaxTurns

-----------------------------------------------------------------------------
(* SpecExtended: MarketDataFetcher._get_extended_hours_data                *)
(* (src/python/src/market_data.py 113-215), for quotes whose values are    *)
(* numbers or None.                                                        *)

Sessions == {"premarket", "afterhours"}

\* the dict the function starts from
EmptyExtended ==
    [premarket_price |-> NoneV, premarket_change |-> NoneV,
     premarket_change_percent |-> NoneV, premarket_volume |-> NoneV,
     afterhours_price |-> NoneV, afterhours_change |-> NoneV,
     afterhours_change_percent |-> NoneV, afterhours_volume |-> NoneV,
     extended_hours_active |-> FALSE, last_extended_trade_time |-> NoneV]

\* info.get('regularMarketPrice', info.get('previousClose', 0))
RegularPrice(i) == GetOr(i.regularMarketPrice, GetOr(i.previousClose, IntV(0)))

\* (price - regular) / regular * 100
Percent(price, regular) == FMul(FDiv(FSub(price, regular), regular), IntV(100))

\* the four assignments of one session, in the order of the code
WithSession(d, s, price, change, percent, volume) ==
    IF s = "premarket"
    THEN [d EXCEPT !.premarket_price = price, !.premarket_change = change,
                   !.premarket_change_percent = percent, !.premarket_volume = volume]
    ELSE [d EXCEPT !.afterhours_price = price, !.afterhours_change = change,
                   !.afterhours_change_percent = percent, !.afterhours_volume = volume]

\* mutant of InfoSection: extended_hours_active is set after the trade time
\* was converted
InfoSection_FlagLast(d, i, s, f) ==
    LET price   == Get(IF s = "premarket" THEN i.preMarketPrice ELSE i.postMarketPrice)
        regular == RegularPrice(i)
        time    == Get(IF s = "premarket" THEN i.preMarketTime ELSE i.postMarketTime)
        volume  == GetOr(IF s = "premarket" THEN i.preMarketVolume ELSE i.postMarketVolume,
                         IntV(0))
        quoted  == WithSession(d, s, price, FSub(price, regular), Percent(price, regular), volume)
        active  == [quoted EXCEPT !.extended_hours_active = TRUE]
        timed   == [active EXCEPT !.last_extended_trade_time = time]
    IN  IF ~(Truthy(price) /\ Truthy(regular)) THEN [data |-> d, exc |-> "none"]
        ELSE IF ~Truthy(time) THEN [data |-> active, exc |-> "none"]
        ELSE IF f = s THEN [data |-> quoted, exc |-> "OSError"]
        ELSE [data |-> timed, exc |-> "none"]

\* lines 144-157 (s = "premarket") and 159-172 (s = "afterhours"): the quote
\* of one session taken from ticker.info; f = s: datetime.fromtimestamp
\* raises on the trade time
InfoSection(d, i, s, f) ==
    LET price   == Get(IF s = "premarket" THEN i.preMarketPrice ELSE i.postMarketPrice)
        regular == RegularPrice(i)
        time    == Get(IF s = "premarket" THEN i.preMarketTime ELSE i.postMarketTime)
        volume  == GetOr(IF s = "premarket" THEN i.preMarketVolume ELSE i.postMarketVolume,
                         IntV(0))
        quoted  == WithSession(d, s, price, FSub(price, regular), Percent(price, regular), volume)
        active  == [quoted EXCEPT !.extended_hours_active = TRUE]
        timed   == [active EXCEPT !.last_extended_trade_time = time]
    IN  IF ~(Truthy(price) /\ Truthy(regular)) THEN [data |-> d, exc |-> "none"]
        ELSE IF ~Truthy(time) THEN [data |-> active, exc |-> "none"]
        ELSE IF f = s THEN [data |-> active, exc |-> "OSError"]
        ELSE [data |-> timed, exc |-> "none"]

\* int(latest_extended['Volume']): a NaN volume raises ValueError
IntOf(v) == IF v.kind = "fin" THEN [val |-> v, exc |-> "none"] ELSE [val |-> NoneV, exc |-> "ValueError"]

\* lines 174-207: the one-minute history with extended hours, inside
\* `try: ... except Exception: pass`
HistorySection(d, h, f) ==
    LET active == [d EXCEPT !.extended_hours_active = TRUE,
                            !.last_extended_trade_time = h.time]
        s      == h.session
        change == FSub(h.close, h.regular_close)
        priced == WithSession(active, s, h.close, change,
                              Percent(h.close, h.regular_close), NoneV)
        vol    == IntOf(h.volume)
    IN  IF f = "history" \/ h.kind # "extended" THEN d
        ELSE IF Truthy(d.premarket_price) \/ Truthy(d.afterhours_price) THEN active
        ELSE IF vol.exc # "none" THEN priced
        ELSE WithSession(active, s, h.close, change,
                         Percent(h.close, h.regular_close), vol.val)

\* _get_extended_hours_data(ticker, symbol) for ticker.info = i and the
\* one-minute history h, when step f raises
GetExtendedHoursData(i, h, f) ==
    IF f \in {"fast_info", "info"} THEN EmptyExtended
    ELSE LET pre == InfoSection(EmptyExtended, i, "premarket", f)
         IN  IF pre.exc # "none" THEN pre.data
             ELSE LET post == InfoSection(pre.data, i, "afterhours", f)
                  IN  IF post.exc # "none" THEN post.data
                      ELSE HistorySection(post.data, h, f)

\* the steps that can raise: the two attribute reads, the conversion of the
\* trade time of a session, the history request
Faults == {"none", "fast_info", "info", "history"} \cup Sessions

\* a time stamp
T_TRADE == IntV(1700000000)

\* the quotes
Infos ==
    [preMarketPrice     : {NoneV, IntV(0), IntV(105)},
     postMarketPrice    : {NoneV, IntV(98)},
     regularMarketPrice : {Absent, NoneV, IntV(0), IntV(100)},
     previousClose      : {Absent, IntV(100)},
     preMarketTime      : {NoneV, T_TRADE},
     postMarketTime     : {T_TRADE},
     preMarketVolume    : {Absent},
     postMarketVolume   : {IntV(700)}]

\* the one-minute histories: empty, regular hours only, or with a latest bar
\* outside regular hours
Histories1d ==
    {[kind |-> "empty"], [kind |-> "regular"]}
    \cup [kind : {"extended"}, session : Sessions, time : {T_TRADE},
          close : {IntV(101)}, volume : {IntV(500), NaN},
          regular_close : {IntV(100), IntV(0)}]

InitExtended ==
    /\ ParseIdle
    /\ BatchIdle
    /\ DiscIdle /\ SaveIdle /\ IndIdle /\ FmtIdle
    /\ LoopIdle /\ MultiIdle /\ StatIdle
    /\ info \in Infos
    /\ hist_1d \in Histories1d
    /\ fault \in Faults
    /\ extended_data = NoneV
    /\ epc = "call"

ReturnExtended ==
    /\ epc = "call"
    /\ extended_data' = GetExtendedHoursData(info, hist_1d, fault)
    /\ epc' = "returned"
    /\ UNCHANGED <<info, hist_1d, fault>>
    /\ UNCHANGED <<parseVars, batchVars, discVars, saveVars, indVars, fmtVars, loopVars, multiVars, statVars>>

NextExtended == ReturnExtended

SpecExtended == InitExtended /\ [][NextExtended]_vars

\* the price, change and change_percent fields of a session
PriceOf(d, s) == IF s = "premarket" THEN d.premarket_price ELSE d.afterhours_price
ChangeOf(d, s) == IF s = "premarket" THEN d.premarket_change ELSE d.afterhours_change
PercentOf(d, s) ==
    IF s = "premarket" THEN d.premarket_change_percent ELSE d.afterhours_change_percent

\* neither quote of ticker.info is usable and the history shows no bar
\* outside regular hours (or could not be read)
NoExtendedData ==
    /\ \/ fault \in {"fast_info", "info"}
       \/ ~Truthy(Get(info.preMarketPrice)) /\ ~Truthy(Get(info.postMarketPrice))
    /\ hist_1d.kind # "extended" \/ fault \in {"fast_info", "info", "history"}

\* C27: in the dict _get_extended_hours_data returns, a session whose price
\* is not None has its change and change_percent set as well and
\* extended_hours_active is True, also when a step of the function raised;
\* without extended data every price, change, change_percent and volume is
\* None and the flag is False.
C27_ExtendedFieldsConsistent ==
    epc = "returned" =>
        /\ \A s \in Sessions :
              PriceOf(extended_data, s) # NoneV =>
                  /\ ChangeOf(extended_data, s) # NoneV
                  /\ PercentOf(extended_data, s) # NoneV
                  /\ extended_data.extended_hours_active
        /\ NoExtendedData => extended_data = EmptyExtended

\* C27 witness: the conversion of the pre-market trade time raised after the
\* pre-market quote was stored; the after-hours quote was never looked at.
C27_Witness ==
    /\ epc = "returned"
    /\ fault = "premarket"
    /\ extended_data.premarket_price = IntV(105)
    /\ extended_data.premarket_change = IntV(5)
    /\ extended_data.last_extended_trade_time = NoneV
    /\ Truthy(info.postMarketPrice)
    /\ extended_data.afterhours_price = NoneV

-----------------------------------------------------------------------------
(* SpecStatistics: the STATISTICS block of display_binary_summary          *)
(* (stock_analyzer.py 635-642) and the summary of save_binary_results      *)
(* (main.py 167-182).  The percentages are Python floats.                  *)

\* the significand of a double
MANTISSA == 53

\* a binary fraction is a string of limbs of LIMB_BITS bits, the first one
\* holding the integer part
LIMB_BITS == 16

\* the limbs of a quotient that are computed before it is rounded
QUOTIENT_LIMBS == 5

Base == 2 ^ LIMB_BITS

\* the first k limbs after the point of r / n, for 0 <= r < n
RECURSIVE QuotientLimbs(_, _, _)
QuotientLimbs(r, n, k) ==
    IF k = 0 THEN <<>>
    ELSE <<(r * Base) \div n>> \o QuotientLimbs((r * Base) % n, n, k - 1)

\* what is left of r / n after those k limbs
RECURSIVE QuotientRest(_, _, _)
QuotientRest(r, n, k) == IF k = 0 THEN r ELSE QuotientRest((r * Base) % n, n, k - 1)

\* k limbs of 0
RECURSIVE Zeros(_)
Zeros(k) == IF k = 0 THEN <<>> ELSE <<0>> \o Zeros(k - 1)

\* limbs with limb w replaced by v
SetLimb(limbs, w, v) ==
    SubSeq(limbs, 1, w - 1) \o <<v>> \o SubSeq(limbs, w + 1, Len(limbs))

\* limbs + u * Base^(Len(limbs) - w): u is added to limb w, the carry goes left
RECURSIVE AddAt(_, _, _)
AddAt(limbs, w, u) ==
    IF u = 0 \/ w = 0 THEN limbs
    ELSE IF w = 1 THEN SetLimb(limbs, 1, limbs[1] + u)
    ELSE AddAt(SetLimb(limbs, w, (limbs[w] + u) % Base), w - 1, (limbs[w] + u) \div Base)

\* limbs * m + carry, exactly, for a small m; the first limb takes what is
\* carried out of the second
RECURSIVE TimesSmall(_, _, _)
TimesSmall(limbs, m, carry) ==
    LET n == Len(limbs)
        t == limbs[n] * m + carry
    IN  IF n = 1 THEN <<t>>
        ELSE Append(TimesSmall(SubSeq(limbs, 1, n - 1), m, t \div Base), t % Base)

\* the number of bits of v >= 1
BitLength(v) == CHOOSE e \in 1..LIMB_BITS : 2 ^ (e - 1) <= v /\ v < 2 ^ e

IsZero(limbs, from) == \A i \in from..Len(limbs) : limbs[i] = 0

\* the position, counted in bits from the left end, of the last bit a double
\* keeps of limbs # 0
LastKept(limbs) ==
    LET j == CHOOSE i \in 1..Len(limbs) : limbs[i] # 0 /\ \A m \in 1..(i - 1) : limbs[m] = 0
    IN  LIMB_BITS * j - BitLength(limbs[j]) + MANTISSA

\* the double nearest to the value (ties to the even significand); sticky:
\* the exact value has further non-zero bits after those of limbs
RoundDouble(limbs, sticky) ==
    LET last  == LastKept(limbs)
        w     == ((last - 1) \div LIMB_BITS) + 1
        u     == 2 ^ (LIMB_BITS * w - last)
        low   == limbs[w] % u
        guard == IF u > 1 THEN low \div (u \div 2) = 1
                 ELSE limbs[w + 1] \div (Base \div 2) = 1
        rest  == IF u > 1
                 THEN low % (u \div 2) # 0 \/ ~IsZero(limbs, w + 1) \/ sticky
                 ELSE limbs[w + 1] % (Base \div 2) # 0 \/ ~IsZero(limbs, w + 2) \/ sticky
        odd   == (limbs[w] \div u) % 2 = 1
        kept  == SubSeq(limbs, 1, w - 1) \o <<limbs[w] - low>> \o Zeros(Len(limbs) - w)
    IN  IF IsZero(limbs, 1) \/ last >= LIMB_BITS * Len(limbs) THEN limbs
        ELSE IF guard /\ (rest \/ odd) THEN AddAt(kept, w, u)
        ELSE kept

\* len(buys) / len(results): int / int is correctly rounded
FloatDiv(k, n) ==
    RoundDouble(<<k \div n>> \o QuotientLimbs(k % n, n, QUOTIENT_LIMBS),
                QuotientRest(k % n, n, QUOTIENT_LIMBS) # 0)

\* x * 100, rounded to a double
FloatTimes100(x) == RoundDouble(TimesSmall(x, 100, 0), FALSE)

\* f"{x:.1f}" as a number of tenths: the decimal nearest to the exact value
\* of the double (ties to even)
Tenths(x) ==
    LET t    == TimesSmall(x, 10, 0)
        half == t[2] \div (Base \div 2) = 1
        rest == t[2] % (Base \div 2) # 0 \/ ~IsZero(t, 3)
    IN  IF half /\ (rest \/ t[1] % 2 = 1) THEN t[1] + 1 ELSE t[1]

\* f"{k/n*100:.1f}", in tenths of a percent
PercentShown(k, n) == Tenths(FloatTimes100(FloatDiv(k, n)))

\* the largest batch whose statistics are shown
MaxBatch == 80

\* a result as the parser leaves it, for the fields the statistics read
ResultOf(d) == [symbol |-> "AAPL", decision |-> d, confidence |-> IntV(DEFAULT_CONFIDENCE)]

\* a run of a results with one decision, then a run of b with the other
RunList(first, a, b) ==
    [k \in 1..(a + b) |-> ResultOf(IF k <= a THEN first
                                   ELSE IF first = "buy" THEN "sell" ELSE "buy")]

\* the lists the summary is shown and saved for
SummaryLists ==
    {RunList(t[1], t[2], t[3]) :
        t \in {u \in {"buy", "sell"} \X (0..MaxBatch) \X (0..MaxBatch) :
                  u[2] + u[3] <= MaxBatch}}

\* stock_analyzer.py 575-577 and 635-642: the STATISTICS block (nothing is
\* shown for an empty list); the percentages in tenths, as printed
DisplayStatistics(rs) ==
    LET buys  == WithDecision(rs, "buy")
        sells == WithDecision(rs, "sell")
    IN  IF rs = <<>> THEN NoneV
        ELSE [total_analyzed |-> Len(rs),
              buy_signals    |-> Len(buys),
              sell_signals   |-> Len(sells),
              buy_percent    |-> PercentShown(Len(buys), Len(rs)),
              sell_percent   |-> PercentShown(Len(sells), Len(rs))]

\* main.py 167-176: the counts of the summary that is saved
SavedCounts(rs) ==
    [total_analyzed |-> Len(rs),
     buy_signals    |-> Len(WithDecision(rs, "buy")),
     sell_signals   |-> Len(WithDecision(rs, "sell"))]

InitStatistics ==
    /\ ParseIdle
    /\ BatchIdle
    /\ DiscIdle /\ SaveIdle /\ IndIdle /\ FmtIdle
    /\ LoopIdle /\ ExtIdle /\ MultiIdle
    /\ summary_results \in SummaryLists
    /\ statistics = NoneV
    /\ tpc = "summary"

\* main.py 94-99: display_binary_summary(results), then
\* save_binary_results(results, args.output)
ShowAndSave ==
    /\ tpc = "summary"
    /\ statistics' = [displayed |-> DisplayStatistics(summary_results),
                      saved     |-> SavedCounts(summary_results)]
    /\ tpc' = "done"
    /\ UNCHANGED summary_results
    /\ UNCHANGED <<parseVars, batchVars, discVars, saveVars, indVars, fmtVars, loopVars,
                   extVars, multiVars>>

NextStatistics == ShowAndSave

SpecStatistics == InitStatistics /\ [][NextStatistics]_vars

\* the summary was shown and saved
Summarised == tpc = "done"

\* C28: every record of a results list is counted as a buy or as a sell, so
\* the saved buy_signals and sell_signals add up to total_analyzed, and for
\* a list that is not empty the buy and sell percentages shown add up to 100.
C28_CountsAndPercentagesAddUp ==
    Summarised =>
        /\ statistics.saved.buy_signals + statistics.saved.sell_signals
              = statistics.saved.total_analyzed
        /\ summary_results # <<>> =>
              statistics.displayed.buy_percent + statistics.displayed.sell_percent = 1000

\* the part of C28 that holds: the counts, saved and shown
C28_CountsAddUp ==
    Summarised =>
        /\ statistics.saved.buy_signals + statistics.saved.sell_signals
              = statistics.saved.total_analyzed
        /\ summary_results # <<>> =>
              statistics.displayed.buy_signals + statistics.displayed.sell_signals
                  = statistics.displayed.total_analyzed

\* the value of DECISION: line k, as the parser takes it: the text after the
\* label (up to a second label on the line)
DecisionValue(k) == Strip(SplitSecond(lines[k], LBL_DECISION))

\* the DECISION: lines whose value contains BUY or SELL
DecidingLines ==
    {k \in DecisionLines :
        Contains(DecisionValue(k), TOK_BUY) \/ Contains(DecisionValue(k), TOK_SELL)}

LastDeciding == CHOOSE k \in DecidingLines : \A m \in DecidingLines : m <= k

\* the decision of the response that consists of line k alone
DecisionAlone(k) == ParseBinaryResponse(lines[k], SampleData).decision

\* C29: with several DECISION: lines, the returned decision is the one of
\* the last DECISION: line whose value contains BUY or SELL: buy for BUY
\* alone, sell for SELL alone, and in every case what that line gives as the
\* only line of a response; DECISION: lines after it, which contain neither
\* token, do not reset it.
C29_LastDecidingLineWins ==
    (Returned /\ DecidingLines # {}) =>
        LET v == DecisionValue(LastDeciding)
        IN  /\ result.decision = DecisionAlone(LastDeciding)
            /\ (Contains(v, TOK_BUY) /\ ~Contains(v, TOK_SELL)) => result.decision = "buy"
            /\ (Contains(v, TOK_SELL) /\ ~Contains(v, TOK_BUY)) => result.decision = "sell"

\* C29 witness: a DECISION: line with BUY, then a DECISION: line with neither
\* token; the decision returned is buy, not the default.
C29_Witness ==
    /\ Returned
    /\ Cardinality(DecisionLines) >= 2
    /\ DecidingLines # {}
    /\ \E k \in DecisionLines : k > LastDeciding
    /\ result.decision = "buy"

-----------------------------------------------------------------------------
(* SpecMultiple: StockAnalyzer.analyze_multiple_stocks                     *)
(* (stock_analyzer.py 192-208).                                            *)

\* the methods class StockAnalyzer defines (stock_analyzer.py 15-667)
StockAnalyzerMethods ==
    {"__init__", "find_top_short_term_stocks", "analyze_stock_for_binary_decision",
     "analyze_multiple_stocks", "get_top_recommendations",
     "_create_binary_analysis_prompt", "_create_analysis_prompt",
     "_format_market_overview", "_parse_gpt_response", "_parse_binary_response",
     "run_complete_binary_analysis", "display_binary_summary",
     "generate_portfolio_summary"}

\* self.<name>: the attribute lookup, which raises for a name the class does
\* not define
GetAttr(name) == IF name \in StockAnalyzerMethods THEN "none" ELSE "AttributeError"

\* the method the loop calls for each symbol (line 206)
PER_SYMBOL_METHOD == "analyze_stock_for_short_term_trading"

\* results[symbol] = analysis on a dict kept as its items in insertion order
DictSet(items, key, value) ==
    IF \E k \in 1..Len(items) : items[k].key = key
    THEN [k \in 1..Len(items) |->
             IF items[k].key = key THEN [key |-> key, value |-> value] ELSE items[k]]
    ELSE Append(items, [key |-> key, value |-> value])

\* the longest list handed to analyze_multiple_stocks
MaxGiven == 3

\* the largest Config.MAX_STOCKS_TO_ANALYZE
MaxLimit == 2

GivenSymbols == {"AAPL", "MSFT", "TSLA"}

GivenLists == UNION {[1..n -> GivenSymbols] : n \in 0..MaxGiven}

\* what an analysis of one symbol can return
Analyses == {"analysis", "error"}

InitMultiple ==
    /\ ParseIdle
    /\ BatchIdle
    /\ DiscIdle /\ SaveIdle /\ IndIdle /\ FmtIdle
    /\ LoopIdle /\ ExtIdle /\ StatIdle
    /\ multi_symbols \in GivenLists
    /\ max_stocks \in 0..MaxLimit
    /\ multi_results = <<>>
    /\ multi_raised = "none"
    /\ mpc = [at |-> "loop", i |-> 1]

\* lines 204-206: one pass of `for symbol in symbols[:Config.MAX_STOCKS_TO_ANALYZE]`
AnalyzeNextSymbol ==
    /\ mpc.at = "loop"
    /\ mpc.i <= Len(SliceTo(multi_symbols, max_stocks))
    /\ IF GetAttr(PER_SYMBOL_METHOD) = "none"
       THEN /\ \E a \in Analyses :
                  multi_results' = DictSet(multi_results, multi_symbols[mpc.i], a)
            /\ mpc' = [at |-> "loop", i |-> mpc.i + 1]
            /\ UNCHANGED multi_raised
       ELSE /\ multi_raised' = GetAttr(PER_SYMBOL_METHOD)
            /\ mpc' = [at |-> "raised", i |-> mpc.i]
            /\ UNCHANGED multi_results
    /\ UNCHANGED <<multi_symbols, max_stocks>>
    /\ UNCHANGED <<parseVars, batchVars, discVars, saveVars, indVars, fmtVars, loopVars,
                   extVars, statVars>>

\* line 208: return results
ReturnMultiple ==
    /\ mpc.at = "loop"
    /\ mpc.i > Len(SliceTo(multi_symbols, max_stocks))
    /\ mpc' = [at |-> "returned", i |-> mpc.i]
    /\ UNCHANGED <<multi_symbols, max_stocks, multi_results, multi_raised>>
    /\ UNCHANGED <<parseVars, batchVars, discVars, saveVars, indVars, fmtVars, loopVars,
                   extVars, statVars>>

NextMultiple == AnalyzeNextSymbol \/ ReturnMultiple

SpecMultiple == InitMultiple /\ [][NextMultiple]_vars

\* analyze_multiple_stocks is over
MultipleOver == mpc.at \in {"returned", "raised"}

\* C30: analyze_multiple_stocks returns, and the keys of the dictionary it
\* returns are the first MAX_STOCKS_TO_ANALYZE symbols of the list it was
\* given, in the order of the list, and no other symbol.
C30_FirstSymbolsAnalysed ==
    MultipleOver =>
        /\ mpc.at = "returned"
        /\ [k \in 1..Len(multi_results) |-> multi_results[k].key]
              = SliceTo(multi_symbols, max_stocks)

\* what the code does: it returns the empty dictionary when the slice is
\* empty and raises on the first symbol otherwise
C30_RaisesOnFirstSymbol ==
    MultipleOver =>
        /\ multi_results = <<>>
        /\ (mpc.at = "raised") = (SliceTo(multi_symbols, max_stocks) # <<>>)
        /\ mpc.at = "raised" => multi_raised = "AttributeError" /\ mpc.i = 1
====
